---- MODULE Spec2Model ----
(***************************************************************************)
(* Minesweeper with solver agents: the board and tile model (sprites.py),  *)
(* the game session (main.py) and the solvers' knowledge base              *)
(* (minesweeperAI.py).                                                     *)
(*                                                                         *)
(* A cell is <<x, y>> with x the column and y the row, as in               *)
(* board_list[x][y].                                                       *)
(***************************************************************************)
EXTENDS Integers, Sequences, FiniteSets, TLC

\* The most tiles that carry a flag at once in the explored games.
MaxFlagged == 1

\* The longest knowledge list and the largest clue explored for the solver.
MaxKnowledge == 2
MaxCount == 2
\* The most cells the solver has marked (mines and safes together).
MaxMarked == 2
\* The longest knowledge list the strategies' derivations are explored on.
MaxSentences == 3
\* The most games a benchmark is asked to play.
MaxGames == 2
\* The most moves of the agent explored in one game: more than the largest
\* board has tiles.
MaxMoves == 10

VARIABLES
    ROWS,           \* settings.ROWS
    COLS,           \* settings.COLS
    AMOUNT_MINES,   \* settings.AMOUNT_MINES
    board_list,     \* Board.board_list: cell -> Tile
    first_click,    \* Board.first_click
    dug,            \* Board.dug as the set of its entries: the code only
                    \* appends to the list and tests membership in it
    win,            \* Minesweeper.win: "None", "True" or "False"
    playing,        \* Minesweeper.playing
    pc,             \* where the session is: run_game, events, end_screen
    first_cell,     \* the cell of the reveal that placed the mines (<<>> before)
    knowledge,      \* Solver.knowledge: sequence of Sentences
    mines,          \* Solver.mines
    safes,          \* Solver.safes
    moves_made,     \* Solver.moves_made
    next_uncertain_move, \* Solver.next_uncertain_move (<<>> for None)
    guess,          \* Solver.guess
    analysis,       \* the last analyze_knowledge call: the knowledge it was
                    \* given, its possible_configuration or prob_dict after
                    \* the estimation, and what it raised
    ai,             \* the class of the solver object ("None": no agent)
    guess_method,   \* play_multiple_games' guess_method, SetBasedSolver.guess_method
    argv,           \* sys.argv[1:], as integers
    move,           \* events' last (mx, my), button = ai.make_move(), as
                    \* <<cell, button>> (<<>> before the first)
    game,           \* the games the play loop has started
    moves,          \* the events() calls run_game's loop has made for the agent
                    \* in the game
    sessions        \* the game sessions the process has started, oldest first:
                    \* for each the ROWS, COLS and AMOUNT_MINES its Minesweeper
                    \* and its solver were constructed with; the last one is
                    \* the session run_game is (or was last) running for

settingsVars == <<ROWS, COLS, AMOUNT_MINES>>
boardVars == <<board_list, first_click, dug>>
gameVars == <<board_list, first_click, dug, win, playing>>
agentVars == <<ai, guess_method, argv, move, game, moves, sessions>>
solverVars == <<knowledge, mines, safes, moves_made, next_uncertain_move, guess, analysis,
                agentVars>>
vars == <<ROWS, COLS, AMOUNT_MINES, board_list, first_click, dug, win, playing, pc,
          first_cell, knowledge, mines, safes, moves_made, next_uncertain_move, guess,
          analysis, ai, guess_method, argv, move, game, moves, sessions>>

\* settings.difficulty_settings(mode): the three presets (10 x 10 with 10
\* mines, 16 x 16 with 40, 16 x 30 with 99) scaled down to boards that can
\* be explored exhaustively: a single row, a board whose tiles all touch a
\* mine's column, and a board wide enough for the flood fill to recurse.
difficulty_settings(mode) ==
    IF mode = 1 THEN [ROWS |-> 1, COLS |-> 5, AMOUNT_MINES |-> 1]
    ELSE IF mode = 2 THEN [ROWS |-> 2, COLS |-> 3, AMOUNT_MINES |-> 2]
    ELSE [ROWS |-> 2, COLS |-> 4, AMOUNT_MINES |-> 1]

Modes == {1, 2, 3}

\* The values of settings.ROWS, settings.COLS and settings.AMOUNT_MINES a
\* constructor reads.
Configuration == [ROWS |-> ROWS, COLS |-> COLS, AMOUNT_MINES |-> AMOUNT_MINES]

Cells == (0 .. COLS - 1) \X (0 .. ROWS - 1)

Range(s) == {s[i] : i \in 1 .. Len(s)}

\* ------------------------------------------------------------------------
\* settings.py: the sprites, named after their asset files.
tile_numbers == <<"Tile1", "Tile2", "Tile3", "Tile4", "Tile5", "Tile6", "Tile7", "Tile8">>
tile_empty == "TileEmpty"
tile_exploded == "TileExploded"
tile_flag == "TileFlag"
tile_mine == "TileMine"
tile_unknown == "TileUnknown"
tile_not_mine == "TileNotMine"

\* ------------------------------------------------------------------------
\* sprites.py: Tile and Board.

\* Tile(col, row, settings.tile_empty, ".")
Tile == [image |-> tile_empty, type |-> ".", nearby_mine |-> 0,
         revealed |-> FALSE, flagged |-> FALSE]

\* Tile.draw: the sprite blitted for a tile, "None" when no branch of the
\* if/elif chain is taken and nothing is blitted.
Tile_draw(tile) ==
    IF ~tile.flagged /\ tile.revealed THEN tile.image
    ELSE IF tile.flagged /\ ~tile.revealed THEN tile_flag
    ELSE IF ~tile.revealed THEN tile_unknown
    ELSE "None"

\* Board.__init__: board_list; first_click and dug are set by NewBoard's users.
NewBoardList == [c \in Cells |-> Tile]

is_inside(x, y) == 0 <= x /\ x < COLS /\ 0 <= y /\ y < ROWS

\* Board.place_mines: AMOUNT_MINES rounds, each turning one tile that is
\* still "." and is not the first click into a mine. random.randint may
\* pick any such tile, so the result is the set of boards it can produce.
RECURSIVE PlaceMinesFrom(_, _, _, _)
PlaceMinesFrom(bl, fcx, fcy, k) ==
    IF k = 0 THEN {bl}
    ELSE UNION { PlaceMinesFrom([bl EXCEPT ![c].image = tile_mine, ![c].type = "X"],
                                fcx, fcy, k - 1) :
                 c \in {d \in Cells : bl[d].type = "." /\ d # <<fcx, fcy>>} }

\* place_mines without the test against the first click position.
place_mines_anywhere(bl, fcx, fcy) == PlaceMinesFrom(bl, -1, -1, AMOUNT_MINES)

place_mines(bl, fcx, fcy) == PlaceMinesFrom(bl, fcx, fcy, AMOUNT_MINES)

\* check_neighbours looping over range(-1, 1), which leaves out offset 1.
check_neighbours_short(bl, x, y) ==
    Cardinality({ o \in (-1 .. 0) \X (-1 .. 0) :
                    /\ 0 <= x + o[1] /\ x + o[1] < COLS /\ 0 <= y + o[2] /\ y + o[2] < ROWS
                    /\ bl[<<x + o[1], y + o[2]>>].type = "X" })

\* Board.check_neighbours: the offsets -1..1 in both directions (the tile
\* itself included), counted when inside the board and a mine.
check_neighbours(bl, x, y) ==
    Cardinality({ o \in (-1 .. 1) \X (-1 .. 1) :
                    /\ is_inside(x + o[1], y + o[2])
                    /\ bl[<<x + o[1], y + o[2]>>].type = "X" })

\* Board.place_clues: it reads only which tiles are mines and writes only
\* tiles that are not, so the order of its two loops does not matter.
place_clues(bl) ==
    [c \in Cells |->
        IF bl[c].type # "X" /\ check_neighbours(bl, c[1], c[2]) > 0
        THEN [bl[c] EXCEPT !.image = tile_numbers[check_neighbours(bl, c[1], c[2])],
                           !.type = "C",
                           !.nearby_mine = check_neighbours(bl, c[1], c[2])]
        ELSE bl[c]]

\* The cells dig's two range() loops visit around (x, y), in their order:
\* row (the x coordinate) ascending, then col (the y coordinate) ascending.
RECURSIVE RangeSeq(_, _)
RangeSeq(lo, hi) == IF lo > hi THEN <<>> ELSE <<lo>> \o RangeSeq(lo + 1, hi)

Max(a, b) == IF a >= b THEN a ELSE b
Min(a, b) == IF a <= b THEN a ELSE b

RECURSIVE Flatten(_)
Flatten(ss) == IF ss = <<>> THEN <<>> ELSE Head(ss) \o Flatten(Tail(ss))

\* dig's window without the + 1 that makes range() include x + 1 and y + 1.
DigWindowShort(x, y) ==
    LET rows == RangeSeq(Max(0, x - 1), Min(COLS - 1, x + 1) - 1)
        cols == RangeSeq(Max(0, y - 1), Min(ROWS - 1, y + 1) - 1)
    IN  Flatten([i \in 1 .. Len(rows) |->
                    [j \in 1 .. Len(cols) |-> <<rows[i], cols[j]>>]])

DigWindow(x, y) ==
    LET rows == RangeSeq(Max(0, x - 1), Min(COLS - 1, x + 1))
        cols == RangeSeq(Max(0, y - 1), Min(ROWS - 1, y + 1))
    IN  Flatten([i \in 1 .. Len(rows) |->
                    [j \in 1 .. Len(cols) |-> <<rows[i], cols[j]>>]])

\* Board.dig: the calls dig makes, in order, as the sequence appended to
\* self.dug. `old` is self.dug before the outermost call, `d` what the
\* calls so far have appended. A mine or a clue ends the call; an empty
\* tile recurses into every cell of its window that is not yet in self.dug.
RECURSIVE DigCalls(_, _, _, _), DigLoop(_, _, _, _, _)
DigCalls(bl, old, d, c) ==
    LET d1 == Append(d, c)
    IN  IF bl[c].type = "X" THEN d1
        ELSE IF bl[c].type = "C" THEN d1
        ELSE DigLoop(bl, old, d1, DigWindow(c[1], c[2]), 1)

DigLoop(bl, old, d, w, i) ==
    IF i > Len(w) THEN d
    ELSE IF w[i] \notin old \cup Range(d)
         THEN DigLoop(bl, old, DigCalls(bl, old, d, w[i]), w, i + 1)
         ELSE DigLoop(bl, old, d, w, i + 1)

\* Board.dig(x, y) on board bl with self.dug = old: the board and dug list
\* it leaves, and its return value (False when the tile dug is a mine).
dig(bl, old, c) ==
    LET calls == DigCalls(bl, old, <<>>, c)
    IN  [board_list |->
            [t \in Cells |->
                IF t \in Range(calls)
                THEN [bl[t] EXCEPT !.revealed = TRUE,
                                   !.image = IF bl[t].type = "X" THEN tile_exploded ELSE @]
                ELSE bl[t]],
         dug |-> old \cup Range(calls),
         calls |-> calls,
         result |-> bl[c].type # "X"]

\* ------------------------------------------------------------------------
\* main.py: Minesweeper.

\* check_button, line 57: a reveal acts only on a tile that is not flagged.
reveal_allowed(bl, c) == ~bl[c].flagged

\* A flag action that does not look at the revealed state.
flag_always(bl, c) == TRUE

\* check_button, line 84: a flag action acts only on a tile not revealed.
flag_allowed(bl, c) == ~bl[c].revealed

\* The loss loop leaving wrong flags in place.
reveal_all_keep_flags(bl) ==
    [t \in Cells |->
        IF bl[t].flagged /\ bl[t].type # "X"
        THEN [bl[t] EXCEPT !.revealed = TRUE, !.image = tile_not_mine]
        ELSE IF bl[t].type = "X"
        THEN [bl[t] EXCEPT !.revealed = TRUE]
        ELSE bl[t]]

\* check_button, lines 66-76: reveal all mines and wrong flags.
reveal_all(bl) ==
    [t \in Cells |->
        IF bl[t].flagged /\ bl[t].type # "X"
        THEN [bl[t] EXCEPT !.flagged = FALSE, !.revealed = TRUE, !.image = tile_not_mine]
        ELSE IF bl[t].type = "X"
        THEN [bl[t] EXCEPT !.revealed = TRUE]
        ELSE bl[t]]

\* The tiles in the order check_win's loops visit them.
TileOrder ==
    Flatten([i \in 1 .. COLS |-> [j \in 1 .. ROWS |-> <<i - 1, j - 1>>]])

\* Minesweeper.check_win: False at the first tile that is not a mine and
\* not revealed, True when the loops run out.
RECURSIVE CheckWinFrom(_, _, _)
CheckWinFrom(bl, order, i) ==
    IF i > Len(order) THEN TRUE
    ELSE IF bl[order[i]].type # "X" /\ ~bl[order[i]].revealed THEN FALSE
    ELSE CheckWinFrom(bl, order, i + 1)

\* check_win as its comment words it: "dug or flagged".
check_win_or_flagged(bl) ==
    \A c \in Cells : bl[c].type # "X" => (bl[c].revealed \/ bl[c].flagged)

check_win(bl) == CheckWinFrom(bl, TileOrder, 1)

\* Mines and clues placed by every reveal, first or not.
FirstClickBoards_every_reveal(bl, fclick, mx, my) ==
    {place_clues(b) : b \in place_mines(bl, mx, my)}

\* The boards the first-click branch of check_button can leave.
FirstClickBoards(bl, fclick, mx, my) ==
    IF ~fclick THEN {place_clues(b) : b \in place_mines(bl, mx, my)} ELSE {bl}

\* Minesweeper.check_button(button, mx, my) with no agent.
check_button(button, mx, my) ==
    LET c == <<mx, my>> IN
    IF button = 1 /\ reveal_allowed(board_list, c) THEN
        \E b1 \in FirstClickBoards(board_list, first_click, mx, my) :
            LET r == dig(b1, dug, c) IN
            /\ first_click' = TRUE
            /\ first_cell' = IF first_click THEN first_cell ELSE c
            /\ dug' = r.dug
            /\ IF ~r.result
               THEN /\ board_list' = reveal_all(r.board_list)
                    /\ playing' = FALSE
                    /\ win' = "False"
               ELSE /\ board_list' = r.board_list
                    /\ UNCHANGED <<playing, win>>
    ELSE IF button = 3 /\ flag_allowed(board_list, c) THEN
        /\ board_list' = [board_list EXCEPT ![c].flagged = ~@]
        /\ UNCHANGED <<first_click, first_cell, dug, playing, win>>
    ELSE UNCHANGED <<board_list, first_click, first_cell, dug, playing, win>>

NumFlagged(bl) == Cardinality({c \in Cells : bl[c].flagged})

\* The mouse buttons pygame reports: 1 left, 2 middle, 3 right.
Buttons == {1, 2, 3}

\* No analyze_knowledge call has been made.
NoAnalysis ==
    [knowledge |-> <<>>, possible_configuration |-> <<>>, prob_dict |-> <<>>,
     raised |-> "None"]

\* A difficulty was chosen; then Minesweeper.__init__ and the first
\* new_game() of the play loop; the solver is freshly constructed.
Init ==
    /\ \E mode \in Modes :
        /\ ROWS = difficulty_settings(mode).ROWS
        /\ COLS = difficulty_settings(mode).COLS
        /\ AMOUNT_MINES = difficulty_settings(mode).AMOUNT_MINES
    /\ board_list = NewBoardList
    /\ first_click = FALSE
    /\ dug = {}
    /\ win = "None"
    /\ playing = FALSE
    /\ pc = "run_game"
    /\ first_cell = <<>>
    /\ knowledge = <<>>
    /\ mines = {}
    /\ safes = {}
    /\ moves_made = {}
    /\ next_uncertain_move = <<>>
    /\ guess = -1
    /\ analysis = NoAnalysis
    /\ ai = "None"
    /\ guess_method = 1
    /\ argv = <<>>
    /\ move = <<>>
    /\ game = 1
    /\ moves = 0
    /\ sessions = <<Configuration>>

\* run_game, lines 29-35: self.playing = True, the loop is entered and
\* events() is called.
run_game ==
    /\ pc = "run_game"
    /\ playing' = TRUE
    /\ pc' = "events"
    /\ UNCHANGED <<boardVars, win, first_cell, solverVars, settingsVars>>

\* events, lines 127-132: one MOUSEBUTTONDOWN of the polled batch.
MouseButtonDown ==
    /\ pc = "events"
    /\ \E button \in Buttons, c \in Cells :
        /\ (button = 3 /\ ~board_list[c].flagged /\ ~board_list[c].revealed)
            => NumFlagged(board_list) < MaxFlagged
        /\ check_button(button, c[1], c[2])
    /\ UNCHANGED <<pc, solverVars, settingsVars>>

\* events, lines 136-147: the win check that ends every events() call,
\* and run_game's loop test after it (lines 31 and 45): events() is called
\* again while playing is true, end_screen() once it is false.
EventsReturn ==
    /\ pc = "events"
    /\ IF check_win(board_list)
       THEN /\ win' = "True"
            /\ playing' = FALSE
            /\ board_list' = [c \in Cells |->
                    IF ~board_list[c].revealed
                    THEN [board_list[c] EXCEPT !.flagged = TRUE]
                    ELSE board_list[c]]
       ELSE UNCHANGED <<win, playing, board_list>>
    /\ pc' = IF playing' THEN "events" ELSE "end_screen"
    /\ UNCHANGED <<first_click, dug, first_cell, solverVars, settingsVars>>

\* A new_game that wipes the tiles of the old Board instead of building one.
new_game_same_board ==
    /\ pc = "end_screen"
    /\ board_list' = NewBoardList
    /\ first_cell' = <<>>
    /\ pc' = "run_game"
    /\ UNCHANGED <<first_click, dug, win, playing, solverVars, settingsVars>>

\* end_screen returns on a click; the caller's loop calls new_game():
\* a fresh Board, self.win untouched.
new_game ==
    /\ pc = "end_screen"
    /\ board_list' = NewBoardList
    /\ first_click' = FALSE
    /\ dug' = {}
    /\ first_cell' = <<>>
    /\ pc' = "run_game"
    /\ UNCHANGED <<win, playing, solverVars, settingsVars>>

Next ==
    \/ run_game
    \/ MouseButtonDown
    \/ EventsReturn
    \/ new_game

Spec == Init /\ [][Next]_vars

\* ------------------------------------------------------------------------
\* minesweeperAI.py: Sentence and Solver.

\* Sentence(cells, count)
Sentence(cells, count) == [cells |-> cells, count |-> count]

\* known_mines with >= where the code compares with ==.
known_mines_at_least(s) ==
    IF Cardinality(s.cells) >= s.count THEN s.cells ELSE {}

\* Sentence.known_mines
known_mines(s) ==
    IF Cardinality(s.cells) = s.count THEN s.cells ELSE {}

\* known_safes taking a sentence with one mine left for one with none.
known_safes_one_left(s) ==
    IF s.count <= 1 THEN s.cells ELSE {}

\* Sentence.known_safes
known_safes(s) ==
    IF s.count = 0 THEN s.cells ELSE {}

\* Sentence.mark_mine
Sentence_mark_mine(s, cell) ==
    IF cell \in s.cells
    THEN [s EXCEPT !.cells = @ \ {cell}, !.count = @ - 1]
    ELSE s

\* mark_safe written as a copy of mark_mine, lowering the count too.
Sentence_mark_safe_counting(s, cell) ==
    IF cell \in s.cells
    THEN [s EXCEPT !.cells = @ \ {cell}, !.count = @ - 1]
    ELSE s

\* Sentence.mark_safe
Sentence_mark_safe(s, cell) ==
    IF cell \in s.cells
    THEN [s EXCEPT !.cells = @ \ {cell}]
    ELSE s

\* The solver object as a value: the fields its methods read and write.
Self == [knowledge |-> knowledge, mines |-> mines, safes |-> safes,
         moves_made |-> moves_made, next_uncertain_move |-> next_uncertain_move,
         guess |-> guess]

\* Solver.mark_mine
mark_mine(sv, cell) ==
    [sv EXCEPT !.mines = @ \cup {cell},
               !.knowledge = [i \in DOMAIN @ |-> Sentence_mark_mine(@[i], cell)]]

\* Solver.mark_safe
mark_safe(sv, cell) ==
    [sv EXCEPT !.safes = @ \cup {cell},
               !.knowledge = [i \in DOMAIN @ |-> Sentence_mark_safe(@[i], cell)]]

\* add_sentence keeping the clue as the count, known mines or not.
add_sentence_full_count(sv, cell, count) ==
    LET around == { n \in (cell[1] - 1 .. cell[1] + 1) \X (cell[2] - 1 .. cell[2] + 1) :
                      /\ n # cell
                      /\ 0 <= n[1] /\ n[1] < COLS /\ 0 <= n[2] /\ n[2] < ROWS }
        cells == { n \in around : n \notin sv.mines /\ n \notin sv.safes }
    IN  [sv EXCEPT !.knowledge = Append(@, Sentence(cells, count))]

\* Solver.add_sentence, with self.width = COLS and self.height = ROWS: the
\* neighbours of cell inside the board; a known mine lowers the count, a
\* known safe is left out, the others form the cell set.
add_sentence(sv, cell, count) ==
    LET around == { n \in (cell[1] - 1 .. cell[1] + 1) \X (cell[2] - 1 .. cell[2] + 1) :
                      /\ n # cell
                      /\ 0 <= n[1] /\ n[1] < COLS /\ 0 <= n[2] /\ n[2] < ROWS }
        cells == { n \in around : n \notin sv.mines /\ n \notin sv.safes }
        left == count - Cardinality(around \cap sv.mines)
    IN  [sv EXCEPT !.knowledge = Append(@, Sentence(cells, left))]

\* Marking every cell of a set; the marks of distinct cells commute, so the
\* iteration order of the Python set does not show.
RECURSIVE MarkAllSafe(_, _), MarkAllMine(_, _)
MarkAllSafe(sv, cs) ==
    IF cs = {} THEN sv
    ELSE LET c == CHOOSE x \in cs : TRUE IN MarkAllSafe(mark_safe(sv, c), cs \ {c})

MarkAllMine(sv, cs) ==
    IF cs = {} THEN sv
    ELSE LET c == CHOOSE x \in cs : TRUE IN MarkAllMine(mark_mine(sv, c), cs \ {c})

\* Solver.check_sentence: collect what single sentences make certain, mark
\* the safes and then the mines, and repeat until a pass marks nothing.
RECURSIVE check_sentence(_)
check_sentence(sv) ==
    LET safe_cell == UNION {known_safes(sv.knowledge[i]) : i \in DOMAIN sv.knowledge}
        mine_cell == UNION {known_mines(sv.knowledge[i]) : i \in DOMAIN sv.knowledge}
    IN  IF safe_cell = {} /\ mine_cell = {} THEN sv
        ELSE check_sentence(MarkAllMine(MarkAllSafe(sv, safe_cell), mine_cell))

SetSelf(sv) ==
    /\ knowledge' = sv.knowledge
    /\ mines' = sv.mines
    /\ safes' = sv.safes
    /\ moves_made' = sv.moves_made
    /\ next_uncertain_move' = sv.next_uncertain_move
    /\ guess' = sv.guess

sessionVars == <<ROWS, COLS, AMOUNT_MINES, board_list, first_click, dug, win, playing,
                 pc, first_cell, agentVars>>

NumMarked(sv) == Cardinality(sv.mines \cup sv.safes)

\* A call of Solver.add_sentence(cell, count).
AddSentence(cell, count) ==
    /\ Len(knowledge) < MaxKnowledge
    /\ SetSelf(add_sentence(Self, cell, count))
    /\ UNCHANGED <<sessionVars, analysis>>

\* A call of Solver.mark_mine(cell).
MarkMine(cell) ==
    /\ NumMarked(mark_mine(Self, cell)) <= MaxMarked
    /\ SetSelf(mark_mine(Self, cell))
    /\ UNCHANGED <<sessionVars, analysis>>

\* A call of Solver.mark_safe(cell).
MarkSafe(cell) ==
    /\ NumMarked(mark_safe(Self, cell)) <= MaxMarked
    /\ SetSelf(mark_safe(Self, cell))
    /\ UNCHANGED <<sessionVars, analysis>>

\* A call of Solver.check_sentence().
CheckSentence ==
    /\ NumMarked(check_sentence(Self)) <= MaxMarked
    /\ SetSelf(check_sentence(Self))
    /\ UNCHANGED <<sessionVars, analysis>>

\* The solver's knowledge base driven through its methods, on a solver
\* constructed for the COLS x ROWS board.
SolverNext ==
    \/ \E cell \in Cells, count \in 0 .. MaxCount : AddSentence(cell, count)
    \/ \E cell \in Cells : MarkMine(cell)
    \/ \E cell \in Cells : MarkSafe(cell)
    \/ CheckSentence

SolverSpec == Init /\ [][SolverNext]_vars

\* ------------------------------------------------------------------------
\* minesweeperAI.py: the Solver's moves and the strategies.

\* What a call leaves: the solver object, and the exception it raised
\* ("None" when it returned).
Returned(sv) == [self |-> sv, raised |-> "None"]
Raised(sv, e) == [self |-> sv, raised |-> e]

\* Solver.__init__: the fields of a new solver.
NewSolver ==
    [knowledge |-> <<>>, mines |-> {}, safes |-> {}, moves_made |-> {},
     next_uncertain_move |-> <<>>, guess |-> -1]

\* The list left when the entries of q at the positions outside `keep`
\* are deleted, from position i on.
RECURSIVE KeepPositions(_, _, _)
KeepPositions(q, keep, i) ==
    IF i > Len(q) THEN <<>>
    ELSE (IF i \in keep THEN <<q[i]>> ELSE <<>>) \o KeepPositions(q, keep, i + 1)

\* Solver.remove_null_sentence: every sentence without cells is deleted,
\* whatever its count.
remove_null_sentence(sv) ==
    LET keep == {i \in DOMAIN sv.knowledge : sv.knowledge[i].cells # {}}
    IN  [sv EXCEPT !.knowledge = KeepPositions(@, keep, 1)]

\* Solver.remove_duplicated_sentence: a sentence equal (cells and count) to
\* an earlier one is deleted.
remove_duplicated_sentence(sv) ==
    LET keep == {j \in DOMAIN sv.knowledge :
                    \A i \in 1 .. j - 1 : sv.knowledge[i] # sv.knowledge[j]}
    IN  [sv EXCEPT !.knowledge = KeepPositions(@, keep, 1)]

\* make_safe_move without the difference with moves_made.
make_safe_move_again(sv) == sv.safes

\* Solver.make_safe_move: list(set)[0] is whichever element the set's
\* iteration yields first, so every known safe not acted on is a possible
\* result; {} stands for None.
make_safe_move(sv) == sv.safes \ sv.moves_made

\* The cells in the order of `for y in range(height): for x in range(width)`.
RowMajor ==
    Flatten([j \in 1 .. ROWS |-> [i \in 1 .. COLS |-> <<i - 1, j - 1>>]])

\* The first cell of a sequence that is in a set (<<>> when none).
RECURSIVE FirstIn(_, _, _)
FirstIn(order, S, i) ==
    IF i > Len(order) THEN <<>>
    ELSE IF order[i] \in S THEN order[i]
    ELSE FirstIn(order, S, i + 1)

\* a / b <= c / d for positive b and d.
RatLeq(r1, r2) == r1[1] * r2[2] <= r2[1] * r1[2]

\* choose_uncertain_move committing the informed candidate whatever its risk.
choose_uncertain_move_informed(sv, best_informed_move, best_informed_move_risk, prob_dict) ==
    IF ROWS * COLS = Cardinality(sv.moves_made) THEN Raised(sv, "ZeroDivisionError")
    ELSE Returned([sv EXCEPT !.next_uncertain_move = best_informed_move])

\* Solver.choose_uncertain_move, with the risk as the fraction <<n, d>>.
\* Dividing by unknown_tile = 0 raises ZeroDivisionError; when the scan
\* finds no cell, next_uncertain_move keeps its old value.
choose_uncertain_move(sv, best_informed_move, best_informed_move_risk, prob_dict) ==
    LET unknown_tile == ROWS * COLS - Cardinality(sv.moves_made)
        unknown_mine == AMOUNT_MINES - Cardinality(sv.mines)
        outside == FirstIn(RowMajor, Cells \ (sv.moves_made \cup prob_dict), 1)
    IN  IF unknown_tile = 0 THEN Raised(sv, "ZeroDivisionError")
        ELSE IF \/ RatLeq(best_informed_move_risk, <<unknown_mine, unknown_tile>>)
                \/ unknown_tile = Cardinality(prob_dict)
        THEN Returned([sv EXCEPT !.next_uncertain_move = best_informed_move])
        ELSE IF outside # <<>>
        THEN Returned([sv EXCEPT !.next_uncertain_move = outside])
        ELSE Returned(sv)

\* make_uncertain_move without the scan for an empty knowledge list.
make_uncertain_move_committed(sv) == sv.next_uncertain_move

\* Solver.make_uncertain_move (<<>> for None).
make_uncertain_move(sv) ==
    LET hidden == FirstIn(RowMajor, Cells \ (sv.moves_made \cup sv.mines), 1)
    IN  IF Len(sv.knowledge) = 0 /\ hidden # <<>> THEN hidden
        ELSE sv.next_uncertain_move

\* reset leaving the committed uncertain move and the guess counter.
reset_sets_only(sv) ==
    [sv EXCEPT !.moves_made = {}, !.mines = {}, !.safes = {}, !.knowledge = <<>>]

\* Solver.reset
reset(sv) ==
    [sv EXCEPT !.moves_made = {}, !.mines = {}, !.safes = {}, !.knowledge = <<>>,
               !.next_uncertain_move = <<>>, !.guess = -1]

\* add_knowledge without recording the cell as a move made.
ProbabilitySolver_add_knowledge_unrecorded(sv, cell, count) ==
    LET marked == mark_safe(sv, cell)
    IN  IF count = 0 THEN marked
        ELSE remove_duplicated_sentence(remove_null_sentence(
                check_sentence(add_sentence(marked, cell, count))))

\* ProbabilitySolver.add_knowledge
ProbabilitySolver_add_knowledge(sv, cell, count) ==
    LET marked == mark_safe([sv EXCEPT !.moves_made = @ \cup {cell}], cell)
    IN  IF count = 0 THEN marked
        ELSE remove_duplicated_sentence(remove_null_sentence(
                check_sentence(add_sentence(marked, cell, count))))

\* The cells the sentences of a knowledge list mention.
MentionedCells(kn) == UNION {kn[i].cells : i \in DOMAIN kn}

RECURSIVE SetToSeq(_)
SetToSeq(S) ==
    IF S = {} THEN <<>>
    ELSE LET x == CHOOSE y \in S : TRUE IN <<x>> \o SetToSeq(S \ {x})

\* combinations that also yields the subsets one element short.
combinations_or_fewer(S, r) ==
    SetToSeq({c \in SUBSET S : Cardinality(c) = r \/ Cardinality(c) = r - 1})

\* itertools.combinations(S, r): every r-element subset of S once, in an
\* order that follows the set's iteration.
combinations(S, r) == SetToSeq({c \in SUBSET S : Cardinality(c) = r})

\* GenerateConfigurationSolver.analyze_knowledge, lines 336-352: the
\* configurations one sentence makes of one given configuration.
ExtendConfiguration(sentence, configuration, invalid_cell) ==
    LET valid_cell == sentence.cells \ invalid_cell
        missing_cell_num == sentence.count - Cardinality(sentence.cells \cap configuration)
    IN  IF missing_cell_num < 0 THEN <<>>
        ELSE LET choices == combinations(valid_cell, missing_cell_num)
             IN  [k \in 1 .. Len(choices) |-> configuration \cup choices[k]]

\* Lines 327-355: the loop over the sentences from the i-th on; `given` is
\* the list the sentences before it left, invalid_cell the cells they mention.
RECURSIVE Configurations(_, _, _, _)
Configurations(kn, i, given, invalid_cell) ==
    IF i > Len(kn) THEN given
    ELSE Configurations(kn, i + 1,
            Flatten([k \in 1 .. Len(given) |->
                        ExtendConfiguration(kn[i], given[k], invalid_cell)]),
            invalid_cell \cup kn[i].cells)

\* The list possible_configuration after the loop, started from [set()].
possible_configuration(kn) == Configurations(kn, 1, <<{}>>, {})

\* Lines 357-360: in how many configurations each mentioned cell is a mine.
cell_histogram(kn, configs) ==
    [c \in MentionedCells(kn) |-> Cardinality({k \in 1 .. Len(configs) : c \in configs[k]})]

\* analyze_knowledge setting certain_move_found for a certain mine too.
GenerateConfigurationSolver_analyze_knowledge_mines_certain(sv) ==
    IF Len(sv.knowledge) = 0 THEN {Returned(sv)}
    ELSE
    LET configs == possible_configuration(sv.knowledge)
        hist == cell_histogram(sv.knowledge, configs)
        never == {c \in DOMAIN hist : hist[c] = 0}
        always == {c \in DOMAIN hist : hist[c] # 0 /\ hist[c] = Len(configs)}
        marked == MarkAllMine(MarkAllSafe(sv, never), always)
        least == {c \in DOMAIN hist : \A d \in DOMAIN hist : hist[c] <= hist[d]}
    IN  IF never # {} \/ always # {} THEN {Returned(marked)}
        ELSE IF DOMAIN hist = {} THEN {Raised(marked, "ValueError")}
        ELSE {choose_uncertain_move(marked, best, <<hist[best], Len(configs)>>, DOMAIN hist) :
                best \in least}

\* GenerateConfigurationSolver.analyze_knowledge: the outcomes of a call.
\* min() takes the first minimal cell in the dict's order, which follows
\* the sets' iteration: every minimal cell is a possible choice. min() of
\* an empty histogram raises ValueError.
GenerateConfigurationSolver_analyze_knowledge(sv) ==
    IF Len(sv.knowledge) = 0 THEN {Returned(sv)}
    ELSE
    LET configs == possible_configuration(sv.knowledge)
        hist == cell_histogram(sv.knowledge, configs)
        never == {c \in DOMAIN hist : hist[c] = 0}
        always == {c \in DOMAIN hist : hist[c] # 0 /\ hist[c] = Len(configs)}
        marked == MarkAllMine(MarkAllSafe(sv, never), always)
        least == {c \in DOMAIN hist : \A d \in DOMAIN hist : hist[c] <= hist[d]}
    IN  IF never # {} THEN {Returned(marked)}
        ELSE IF DOMAIN hist = {} THEN {Raised(marked, "ValueError")}
        ELSE {choose_uncertain_move(marked, best, <<hist[best], Len(configs)>>, DOMAIN hist) :
                best \in least}

\* Fractions <<n, d>> with d > 0 stand for the floats of the estimation:
\* its products and differences of small fractions are exact up to rounding
\* that keeps 0, 1 and the order.
RatMul(a, b) == <<a[1] * b[1], a[2] * b[2]>>
RatOneMinus(a) == <<a[2] - a[1], a[2]>>

\* ProbabilityTheorySolver.analyze_knowledge, lines 423-428: the sentences
\* from the i-th on multiply r = 1 - count / len(cells) into their cells.
RECURSIVE EstimateFrom(_, _, _)
EstimateFrom(kn, i, acc) ==
    IF i > Len(kn) THEN acc
    ELSE LET n == Cardinality(kn[i].cells)
             r == <<n - kn[i].count, n>>
         IN  EstimateFrom(kn, i + 1,
                [c \in DOMAIN acc |-> IF c \in kn[i].cells THEN RatMul(acc[c], r) ELSE acc[c]])

\* Lines 402-431: prob_dict after the estimation, every Probability
\* starting at 1 and ending as 1 - prob.
estimate(kn) ==
    LET acc == EstimateFrom(kn, 1, [c \in MentionedCells(kn) |-> <<1, 1>>])
    IN  [c \in DOMAIN acc |-> RatOneMinus(acc[c])]

\* Lines 436 and 440 compare the Probability object itself with 0 and 1:
\* the class defines no __eq__, so the comparison is never true.
ProbabilityEquals(p, n) == FALSE

\* The risk the 30 refinement passes leave for the best cell is a float
\* this model does not compute: it is taken to be below every average
\* risk or above every one.
RefinedRisks == {<<0, 1>>, <<AMOUNT_MINES + 1, 1>>}

\* analyze_knowledge without the return for an empty knowledge list.
ProbabilityTheorySolver_analyze_knowledge_unguarded(sv) ==
    IF Len(sv.knowledge) = 0 THEN {Raised(sv, "ValueError")}
    ELSE
    LET prob_dict == estimate(sv.knowledge)
        zero == {c \in DOMAIN prob_dict : ProbabilityEquals(prob_dict[c], 0)}
        one == {c \in DOMAIN prob_dict :
                    ~ProbabilityEquals(prob_dict[c], 0) /\ ProbabilityEquals(prob_dict[c], 1)}
        marked == MarkAllMine(MarkAllSafe(sv, zero), one)
    IN  IF zero # {} THEN {Returned(marked)}
        ELSE IF \E i \in DOMAIN sv.knowledge :
                    sv.knowledge[i].count # 0 /\ sv.knowledge[i].cells = {}
        THEN {Raised(marked, "ZeroDivisionError")}
        ELSE IF DOMAIN prob_dict = {} THEN {Raised(marked, "ValueError")}
        ELSE {choose_uncertain_move(marked, best, risk, DOMAIN prob_dict) :
                best \in DOMAIN prob_dict, risk \in RefinedRisks}

\* ProbabilityTheorySolver.analyze_knowledge: the outcomes of a call. The
\* refinement divides by the sum of a sentence's probabilities, which is 0
\* for a sentence without cells; the best cell is any cell of prob_dict.
ProbabilityTheorySolver_analyze_knowledge(sv) ==
    IF Len(sv.knowledge) = 0 THEN {Returned(sv)}
    ELSE
    LET prob_dict == estimate(sv.knowledge)
        zero == {c \in DOMAIN prob_dict : ProbabilityEquals(prob_dict[c], 0)}
        one == {c \in DOMAIN prob_dict :
                    ~ProbabilityEquals(prob_dict[c], 0) /\ ProbabilityEquals(prob_dict[c], 1)}
        marked == MarkAllMine(MarkAllSafe(sv, zero), one)
    IN  IF zero # {} THEN {Returned(marked)}
        ELSE IF \E i \in DOMAIN sv.knowledge :
                    sv.knowledge[i].count # 0 /\ sv.knowledge[i].cells = {}
        THEN {Raised(marked, "ZeroDivisionError")}
        ELSE IF DOMAIN prob_dict = {} THEN {Raised(marked, "ValueError")}
        ELSE {choose_uncertain_move(marked, best, risk, DOMAIN prob_dict) :
                best \in DOMAIN prob_dict, risk \in RefinedRisks}

\* A pair rewritten without lowering the count of the larger sentence.
ComplementPair_keep_count(kn, i, j) ==
    LET s1 == kn[i]
        s2 == kn[j]
        t1 == IF s1.count >= s2.count /\ s2.cells \subseteq s1.cells
              THEN Sentence(s1.cells \ s2.cells, s1.count)
              ELSE s1
        t2 == IF t1.count <= s2.count /\ t1.cells \subseteq s2.cells
              THEN Sentence(s2.cells \ t1.cells, s2.count)
              ELSE s2
    IN  [kn EXCEPT ![i] = t1, ![j] = t2]

\* SetBasedSolver.add_complement_sentence, lines 483-498: one pair. The
\* second test reads s1 as the first branch left it.
ComplementPair(kn, i, j) ==
    LET s1 == kn[i]
        s2 == kn[j]
        t1 == IF s1.count >= s2.count /\ s2.cells \subseteq s1.cells
              THEN Sentence(s1.cells \ s2.cells, s1.count - s2.count)
              ELSE s1
        t2 == IF t1.count <= s2.count /\ t1.cells \subseteq s2.cells
              THEN Sentence(s2.cells \ t1.cells, s2.count - t1.count)
              ELSE s2
    IN  [kn EXCEPT ![i] = t1, ![j] = t2]

\* The two loops, from the pair (i, j) on (positions counted from 1).
RECURSIVE ComplementScan(_, _, _)
ComplementScan(kn, i, j) ==
    IF i > Len(kn) - 1 THEN kn
    ELSE IF j > Len(kn) THEN ComplementScan(kn, i + 1, i + 2)
    ELSE ComplementScan(ComplementPair(kn, i, j), i, j + 1)

\* SetBasedSolver.add_complement_sentence
add_complement_sentence(sv) == [sv EXCEPT !.knowledge = ComplementScan(@, 1, 2)]

\* A pair whose sentences are not queued for deletion.
IntersectionPair_keep_old(st, i, j) ==
    LET kn == st.self.knowledge
        a == IF kn[i].count >= kn[j].count THEN i ELSE j
        b == IF kn[i].count >= kn[j].count THEN j ELSE i
        sub12 == kn[a].cells \ kn[b].cells
    IN  IF kn[a].count - kn[b].count = Cardinality(sub12)
        THEN LET m == MarkAllMine(st.self, sub12)
                 sub21 == m.knowledge[b].cells \ m.knowledge[a].cells
                 n == MarkAllSafe(m, sub21)
                 new == Sentence(n.knowledge[a].cells \cap n.knowledge[b].cells,
                                 n.knowledge[b].count)
             IN  [self |-> [n EXCEPT !.knowledge = Append(@, new)],
                  remove_set |-> st.remove_set]
        ELSE st

\* SetBasedSolver.add_intersection_sentence, lines 512-535: one pair; st
\* holds the solver and remove_set.
IntersectionPair(st, i, j) ==
    LET kn == st.self.knowledge
        a == IF kn[i].count >= kn[j].count THEN i ELSE j
        b == IF kn[i].count >= kn[j].count THEN j ELSE i
        sub12 == kn[a].cells \ kn[b].cells
    IN  IF kn[a].count - kn[b].count = Cardinality(sub12)
        THEN LET m == MarkAllMine(st.self, sub12)
                 sub21 == m.knowledge[b].cells \ m.knowledge[a].cells
                 n == MarkAllSafe(m, sub21)
                 new == Sentence(n.knowledge[a].cells \cap n.knowledge[b].cells,
                                 n.knowledge[b].count)
             IN  [self |-> [n EXCEPT !.knowledge = Append(@, new)],
                  remove_set |-> st.remove_set \cup {i, j}]
        ELSE st

\* The two loops, from the pair (i, j) on: i runs over the sentences the
\* list had at the call (n0 of them), j up to the length hi the list had
\* when the inner loop for this i began.
RECURSIVE IntersectionScan(_, _, _, _, _)
IntersectionScan(st, n0, i, j, hi) ==
    IF i > n0 - 1 THEN st
    ELSE IF j > hi THEN IntersectionScan(st, n0, i + 1, i + 2, Len(st.self.knowledge))
    ELSE IntersectionScan(IntersectionPair(st, i, j), n0, i, j + 1, hi)

\* SetBasedSolver.add_intersection_sentence: the scan, then the deletion
\* of the positions in remove_set.
add_intersection_sentence(sv) ==
    LET n0 == Len(sv.knowledge)
        st == IntersectionScan([self |-> sv, remove_set |-> {}], n0, 1, 2, n0)
        keep == DOMAIN st.self.knowledge \ st.remove_set
    IN  [st.self EXCEPT !.knowledge = KeepPositions(@, keep, 1)]

\* SetBasedSolver.add_knowledge
SetBasedSolver_add_knowledge(sv, cell, count) ==
    LET marked == mark_safe([sv EXCEPT !.moves_made = @ \cup {cell}], cell)
    IN  IF count = 0 THEN marked
        ELSE add_intersection_sentence(remove_null_sentence(check_sentence(
                add_complement_sentence(remove_null_sentence(
                    add_sentence(marked, cell, count))))))

\* SetBasedSolver.analyze_knowledge with self.guess_method = method.
SetBasedSolver_analyze_knowledge(sv, method) ==
    IF method = 1 THEN GenerateConfigurationSolver_analyze_knowledge(remove_null_sentence(sv))
    ELSE IF method = 2 THEN ProbabilityTheorySolver_analyze_knowledge(remove_null_sentence(sv))
    ELSE {Returned(remove_null_sentence(sv))}

\* The solver classes the menu and the benchmark construct.
SolverClasses == {"GenerateConfigurationSolver", "ProbabilityTheorySolver", "SetBasedSolver"}

\* add_knowledge as the class cls defines it.
add_knowledge(cls, sv, cell, count) ==
    IF cls = "SetBasedSolver" THEN SetBasedSolver_add_knowledge(sv, cell, count)
    ELSE ProbabilitySolver_add_knowledge(sv, cell, count)

\* analyze_knowledge as the class cls defines it.
analyze_knowledge(cls, method, sv) ==
    IF cls = "SetBasedSolver" THEN SetBasedSolver_analyze_knowledge(sv, method)
    ELSE IF cls = "GenerateConfigurationSolver"
    THEN GenerateConfigurationSolver_analyze_knowledge(sv)
    ELSE ProbabilityTheorySolver_analyze_knowledge(sv)

\* The locals of an analyze_knowledge call on sv that ended as `out`.
Analysis(cls, method, sv, out) ==
    LET kn == IF cls = "SetBasedSolver" THEN remove_null_sentence(sv).knowledge
              ELSE sv.knowledge
        configs == cls = "GenerateConfigurationSolver"
                    \/ (cls = "SetBasedSolver" /\ method = 1)
        probs == cls = "ProbabilityTheorySolver"
                    \/ (cls = "SetBasedSolver" /\ method = 2)
    IN  [knowledge |-> kn,
         possible_configuration |->
            IF configs /\ kn # <<>> THEN possible_configuration(kn) ELSE <<>>,
         prob_dict |-> IF probs /\ kn # <<>> THEN estimate(kn) ELSE <<>>,
         raised |-> out.raised]

\* A solver of one of the classes was constructed for the board of a
\* chosen difficulty.
StrategyInit ==
    /\ \E mode \in Modes :
        /\ ROWS = difficulty_settings(mode).ROWS
        /\ COLS = difficulty_settings(mode).COLS
        /\ AMOUNT_MINES = difficulty_settings(mode).AMOUNT_MINES
    /\ board_list = NewBoardList
    /\ first_click = FALSE
    /\ dug = {}
    /\ win = "None"
    /\ playing = FALSE
    /\ pc = "run_game"
    /\ first_cell = <<>>
    /\ knowledge = NewSolver.knowledge
    /\ mines = NewSolver.mines
    /\ safes = NewSolver.safes
    /\ moves_made = NewSolver.moves_made
    /\ next_uncertain_move = NewSolver.next_uncertain_move
    /\ guess = NewSolver.guess
    /\ analysis = NoAnalysis
    /\ ai \in SolverClasses
    /\ guess_method \in IF ai = "SetBasedSolver" THEN {1, 2} ELSE {1}
    /\ argv = <<>>
    /\ move = <<>>
    /\ game = 1
    /\ moves = 0
    /\ sessions = <<Configuration>>

\* A call of add_sentence(cell, count) whose sentence can be true of a
\* board: between no mine and a mine in every cell.
AddClue(cell, count) ==
    /\ Len(knowledge) < MaxSentences
    /\ LET sv == add_sentence(Self, cell, count)
           new == sv.knowledge[Len(sv.knowledge)]
       IN  /\ 0 <= new.count /\ new.count <= Cardinality(new.cells)
           /\ SetSelf(sv)
    /\ UNCHANGED <<sessionVars, analysis>>

\* A call of analyze_knowledge().
AnalyzeKnowledge ==
    /\ \E out \in analyze_knowledge(ai, guess_method, Self) :
        /\ SetSelf(out.self)
        /\ analysis' = Analysis(ai, guess_method, Self, out)
    /\ UNCHANGED sessionVars

\* The boards the derivations are explored on: the presets, and a square
\* board on which three sentences meet in the intersection derivation.
DerivationBoards ==
    {difficulty_settings(mode) : mode \in Modes}
        \cup {[ROWS |-> 3, COLS |-> 3, AMOUNT_MINES |-> 2]}

\* A SetBasedSolver was constructed and the mines of a game were laid out
\* by a first click; add_knowledge is about to be called for the tiles
\* the game reveals.
DerivationInit ==
    /\ \E board \in DerivationBoards :
        /\ ROWS = board.ROWS
        /\ COLS = board.COLS
        /\ AMOUNT_MINES = board.AMOUNT_MINES
    /\ \E click \in Cells, fresh \in [Cells -> {Tile}] :
        /\ board_list \in FirstClickBoards(fresh, FALSE, click[1], click[2])
        /\ first_cell = click
    /\ first_click = TRUE
    /\ dug = {}
    /\ win = "None"
    /\ playing = TRUE
    /\ pc = "add_knowledge"
    /\ knowledge = NewSolver.knowledge
    /\ mines = NewSolver.mines
    /\ safes = NewSolver.safes
    /\ moves_made = NewSolver.moves_made
    /\ next_uncertain_move = NewSolver.next_uncertain_move
    /\ guess = NewSolver.guess
    /\ analysis = NoAnalysis
    /\ ai = "SetBasedSolver"
    /\ guess_method = 1
    /\ argv = <<>>
    /\ move = <<>>
    /\ game = 1
    /\ moves = 0
    /\ sessions = <<Configuration>>

derivationFrame == <<settingsVars, gameVars, first_cell, analysis, agentVars>>

\* SetBasedSolver.add_knowledge(cell, count) for a tile the game reveals,
\* lines 550-562: up to the first remove_null_sentence(). The first tile
\* revealed is the one of the first click.
AddKnowledge(cell) ==
    /\ pc = "add_knowledge"
    /\ cell \notin moves_made
    /\ moves_made = {} => cell = first_cell
    /\ board_list[cell].type # "X"
    /\ LET count == board_list[cell].nearby_mine
           marked == mark_safe([Self EXCEPT !.moves_made = @ \cup {cell}], cell)
       IN  IF count = 0
           THEN SetSelf(marked) /\ pc' = "add_knowledge"
           ELSE /\ SetSelf(remove_null_sentence(add_sentence(marked, cell, count)))
                /\ pc' = "add_complement_sentence"
    /\ UNCHANGED derivationFrame

\* Line 563: self.add_complement_sentence()
AddComplementSentence ==
    /\ pc = "add_complement_sentence"
    /\ SetSelf(add_complement_sentence(Self))
    /\ pc' = "check_sentence"
    /\ UNCHANGED derivationFrame

\* check_sentence stopping after its first pass.
CheckAndRemove_one_pass ==
    /\ pc = "check_sentence"
    /\ LET safe_cell == UNION {known_safes(knowledge[i]) : i \in DOMAIN knowledge}
           mine_cell == UNION {known_mines(knowledge[i]) : i \in DOMAIN knowledge}
       IN  SetSelf(remove_null_sentence(MarkAllMine(MarkAllSafe(Self, safe_cell), mine_cell)))
    /\ pc' = "add_intersection_sentence"
    /\ UNCHANGED derivationFrame

\* Lines 566-570: self.check_sentence(); self.remove_null_sentence()
CheckAndRemove ==
    /\ pc = "check_sentence"
    /\ SetSelf(remove_null_sentence(check_sentence(Self)))
    /\ pc' = "add_intersection_sentence"
    /\ UNCHANGED derivationFrame

\* Line 571: self.add_intersection_sentence(); add_knowledge returns.
AddIntersectionSentence ==
    /\ pc = "add_intersection_sentence"
    /\ SetSelf(add_intersection_sentence(Self))
    /\ pc' = "add_knowledge"
    /\ UNCHANGED derivationFrame

\* SetBasedSolver.add_knowledge, call by call, for the tiles of a game
\* revealed in any order.
DerivationNext ==
    \/ \E cell \in Cells : AddKnowledge(cell)
    \/ AddComplementSentence
    \/ CheckAndRemove
    \/ AddIntersectionSentence

DerivationSpec == DerivationInit /\ [][DerivationNext]_vars

\* The analysis of the two probability-based solvers driven through
\* their methods: a knowledge list is built, then analysed.
AnalysisInit == StrategyInit /\ ai # "SetBasedSolver"

AnalysisNext ==
    \/ \E cell \in Cells, count \in 0 .. MaxCount :
        analysis = NoAnalysis /\ AddClue(cell, count)
    \/ AnalyzeKnowledge

AnalysisSpec == AnalysisInit /\ [][AnalysisNext]_vars

\* ------------------------------------------------------------------------
\* main.py: the process entry and the batch benchmark of an agent.

\* The values the command line gives for agent_type, iter and guess_method.
AgentTypes == 1 .. 4
Iterations == 0 .. MaxGames
GuessMethods == {1, 2}

\* sys.argv[1:] after int(): no argument up to four.
Arguments ==
    {<<>>}
        \cup {<<a>> : a \in AgentTypes}
        \cup {<<a, n>> : a \in AgentTypes, n \in Iterations}
        \cup {<<a, n, g>> : a \in AgentTypes, n \in Iterations, g \in GuessMethods}
        \cup {<<a, n, g, g>> : a \in AgentTypes, n \in Iterations, g \in GuessMethods}

\* The boards the benchmark is explored on, standing for settings.ROWS,
\* settings.COLS and settings.AMOUNT_MINES.
AgentBoards == DerivationBoards

\* The line the entry prints (line 437).
InvalidParameterError == "InvalidParameterError: Invalid number of parameters"

\* Every count but 0, 2 and 3 is dispatched like 2.
main_two_or_more(args) ==
    IF Len(args) = 0 THEN [target |-> "main_menu", guess_method |-> 1]
    ELSE IF Len(args) = 3
    THEN [target |-> "play_multiple_games", guess_method |-> args[3]]
    ELSE [target |-> "play_multiple_games", guess_method |-> 1]

\* __main__: what len(sys.argv) selects, and the guess method passed on.
main(args) ==
    IF Len(args) = 0 THEN [target |-> "main_menu", guess_method |-> 1]
    ELSE IF Len(args) = 2
    THEN [target |-> "play_multiple_games", guess_method |-> 1]
    ELSE IF Len(args) = 3
    THEN [target |-> "play_multiple_games", guess_method |-> args[3]]
    ELSE [target |-> InvalidParameterError, guess_method |-> 1]

\* play_multiple_games, lines 167-172: the class constructed for an
\* agent_type; any other value leaves the local `ai` unbound ("None").
AgentClass(agent_type) ==
    IF agent_type = 1 THEN "GenerateConfigurationSolver"
    ELSE IF agent_type = 2 THEN "ProbabilityTheorySolver"
    ELSE IF agent_type = 3 THEN "SetBasedSolver"
    ELSE "None"

\* The reveal part of make_move counting a safe move as a guess too.
RevealMove_every_reveal_counted(out, analysed) ==
    IF out.raised # "None"
    THEN {[self |-> out.self, move |-> <<>>, raised |-> out.raised, analysed |-> analysed]}
    ELSE IF make_safe_move(out.self) # {}
    THEN {[self |-> [out.self EXCEPT !.guess = @ + 1], move |-> <<c, 1>>,
           raised |-> "None", analysed |-> analysed] : c \in make_safe_move(out.self)}
    ELSE {[self |-> [out.self EXCEPT !.guess = @ + 1],
           move |-> <<make_uncertain_move(out.self), 1>>, raised |-> "None",
           analysed |-> analysed]}

\* Solver.make_move, lines 244-265, after the analysis (if any) ended as
\* `out`: a known safe not acted on is revealed, whichever the set yields
\* first; without one the uncertain move is made and counted as a guess.
\* The move is <<<<>>, 1>> when the cell is None and <<>> when an exception
\* ended the call.
RevealMove(out, analysed) ==
    IF out.raised # "None"
    THEN {[self |-> out.self, move |-> <<>>, raised |-> out.raised, analysed |-> analysed]}
    ELSE IF make_safe_move(out.self) # {}
    THEN {[self |-> out.self, move |-> <<c, 1>>, raised |-> "None", analysed |-> analysed] :
            c \in make_safe_move(out.self)}
    ELSE {[self |-> [out.self EXCEPT !.guess = @ + 1],
           move |-> <<make_uncertain_move(out.self), 1>>, raised |-> "None",
           analysed |-> analysed]}

\* Solver.make_move, lines 231-239: `for mine in self.mines` yields the
\* mines in the set's order, so any known mine not acted on may be the one
\* flagged.
FlagMove(sv) ==
    {[self |-> [sv EXCEPT !.moves_made = @ \cup {mine}], move |-> <<mine, 3>>,
      raised |-> "None", analysed |-> FALSE] : mine \in sv.mines \ sv.moves_made}

\* make_move revealing a known safe before it flags a known mine.
make_move_safe_first(cls, method, sv) ==
    IF make_safe_move(sv) # {} THEN RevealMove(Returned(sv), FALSE)
    ELSE IF sv.mines \ sv.moves_made # {} THEN FlagMove(sv)
    ELSE UNION {RevealMove(out, TRUE) : out \in analyze_knowledge(cls, method, sv)}

\* Solver.make_move: the outcomes of a call, each with the move returned
\* and whether analyze_knowledge was called.
make_move(cls, method, sv) ==
    IF sv.mines \ sv.moves_made # {} THEN FlagMove(sv)
    ELSE IF make_safe_move(sv) = {}
    THEN UNION {RevealMove(out, TRUE) : out \in analyze_knowledge(cls, method, sv)}
    ELSE RevealMove(Returned(sv), FALSE)

\* Board.dig(x, y, ai = ai), lines 131-132: ai.add_knowledge for the calls
\* of dig from the i-th on, in their order; a call on a mine returns
\* before it.
RECURSIVE AddKnowledgeCalls(_, _, _, _, _)
AddKnowledgeCalls(cls, sv, bl, calls, i) ==
    IF i > Len(calls) THEN sv
    ELSE IF bl[calls[i]].type = "X" THEN AddKnowledgeCalls(cls, sv, bl, calls, i + 1)
    ELSE AddKnowledgeCalls(cls,
            add_knowledge(cls, sv, calls[i], bl[calls[i]].nearby_mine), bl, calls, i + 1)

\* The process starts with its command line.
AgentInit ==
    /\ \E board \in AgentBoards :
        /\ ROWS = board.ROWS
        /\ COLS = board.COLS
        /\ AMOUNT_MINES = board.AMOUNT_MINES
    /\ board_list = NewBoardList
    /\ first_click = FALSE
    /\ dug = {}
    /\ win = "None"
    /\ playing = FALSE
    /\ pc = "main"
    /\ first_cell = <<>>
    /\ knowledge = NewSolver.knowledge
    /\ mines = NewSolver.mines
    /\ safes = NewSolver.safes
    /\ moves_made = NewSolver.moves_made
    /\ next_uncertain_move = NewSolver.next_uncertain_move
    /\ guess = NewSolver.guess
    /\ analysis = NoAnalysis
    /\ ai = "None"
    /\ guess_method = 1
    /\ argv \in Arguments
    /\ move = <<>>
    /\ game = 0
    /\ moves = 0
    /\ sessions = <<>>

\* __main__, lines 424-437, and for a benchmark play_multiple_games up to
\* its loop (lines 162-174): Minesweeper() and the solver are constructed.
ProcessEntry ==
    /\ pc = "main"
    /\ pc' = main(argv).target
    /\ IF main(argv).target = "play_multiple_games"
       THEN /\ ai' = AgentClass(argv[1])
            /\ guess_method' = main(argv).guess_method
            /\ SetSelf(NewSolver)
            /\ sessions' = Append(sessions, Configuration)
       ELSE UNCHANGED <<ai, guess_method, knowledge, mines, safes, moves_made,
                        next_uncertain_move, guess, sessions>>
    /\ UNCHANGED <<settingsVars, gameVars, first_cell, analysis, argv, move, game, moves>>

\* play_multiple_games, lines 176-178: the loop `for game in range(1, iter
\* + 1)` starts a game with new_game() and calls run_game(ai = ai, ...),
\* which raises UnboundLocalError when no solver was constructed; after
\* the last game the function and the process end.
NextGame ==
    /\ pc = "play_multiple_games"
    /\ IF game < argv[2]
       THEN /\ game' = game + 1
            /\ board_list' = NewBoardList
            /\ first_click' = FALSE
            /\ dug' = {}
            /\ first_cell' = <<>>
            /\ moves' = 0
            /\ pc' = IF ai = "None" THEN "UnboundLocalError" ELSE "run_game"
       ELSE /\ pc' = "exit"
            /\ UNCHANGED <<game, boardVars, first_cell, moves>>
    /\ UNCHANGED <<settingsVars, win, playing, knowledge, mines, safes, moves_made,
                   next_uncertain_move, guess, analysis, ai, guess_method, argv, move,
                   sessions>>

\* events, line 115: (mx, my), button = ai.make_move(). An exception
\* raised in the call, or the TypeError of unpacking a None cell, ends the
\* process.
MakeMove ==
    /\ pc = "events"
    /\ ai # "None"
    /\ moves < MaxMoves
    /\ \E out \in make_move(ai, guess_method, Self) :
        /\ SetSelf(out.self)
        /\ move' = out.move
        /\ moves' = moves + 1
        /\ analysis' = IF out.analysed THEN Analysis(ai, guess_method, Self, out)
                       ELSE analysis
        /\ pc' = IF out.raised # "None" THEN out.raised
                 ELSE IF out.move[1] = <<>> THEN "TypeError"
                 ELSE "check_button"
    /\ UNCHANGED <<settingsVars, gameVars, first_cell, ai, guess_method, argv, game,
                   sessions>>

\* events, line 116: self.check_button(button, mx, my, ai = ai), with the
\* add_knowledge calls dig makes for the tiles it reveals.
AgentCheckButton ==
    /\ pc = "check_button"
    /\ LET c == move[1]
           button == move[2]
       IN  IF button = 1 /\ reveal_allowed(board_list, c) THEN
               \E b1 \in FirstClickBoards(board_list, first_click, c[1], c[2]) :
                   LET r == dig(b1, dug, c) IN
                   /\ first_click' = TRUE
                   /\ first_cell' = IF first_click THEN first_cell ELSE c
                   /\ dug' = r.dug
                   /\ SetSelf(AddKnowledgeCalls(ai, Self, b1, r.calls, 1))
                   /\ IF ~r.result
                      THEN /\ board_list' = reveal_all(r.board_list)
                           /\ playing' = FALSE
                           /\ win' = "False"
                      ELSE /\ board_list' = r.board_list
                           /\ UNCHANGED <<playing, win>>
           ELSE IF button = 3 /\ flag_allowed(board_list, c) THEN
               /\ board_list' = [board_list EXCEPT ![c].flagged = ~@]
               /\ UNCHANGED <<first_click, first_cell, dug, playing, win, knowledge, mines,
                              safes, moves_made, next_uncertain_move, guess>>
           ELSE UNCHANGED <<board_list, first_click, first_cell, dug, playing, win,
                            knowledge, mines, safes, moves_made, next_uncertain_move,
                            guess>>
    /\ pc' = "check_win"
    /\ UNCHANGED <<settingsVars, analysis, agentVars>>

\* events, lines 136-147, and run_game's loop test (lines 31 and 44-46):
\* events() is called again while playing is true; with end_screen = False
\* run_game returns to play_multiple_games once it is false.
AgentEventsReturn ==
    /\ pc = "check_win"
    /\ IF check_win(board_list)
       THEN /\ win' = "True"
            /\ playing' = FALSE
            /\ board_list' = [c \in Cells |->
                    IF ~board_list[c].revealed
                    THEN [board_list[c] EXCEPT !.flagged = TRUE]
                    ELSE board_list[c]]
       ELSE UNCHANGED <<win, playing, board_list>>
    /\ pc' = IF playing' THEN "events" ELSE "tally"
    /\ UNCHANGED <<first_click, dug, first_cell, solverVars, settingsVars>>

\* play_multiple_games, lines 180-197: the tallies are printed and
\* ai.reset() ends the round of the loop.
TallyAndReset ==
    /\ pc = "tally"
    /\ SetSelf(reset(Self))
    /\ pc' = "play_multiple_games"
    /\ UNCHANGED <<settingsVars, gameVars, first_cell, analysis, agentVars>>

AgentNext ==
    \/ ProcessEntry
    \/ NextGame
    \/ run_game
    \/ MakeMove
    \/ AgentCheckButton
    \/ AgentEventsReturn
    \/ TallyAndReset

AgentSpec == AgentInit /\ [][AgentNext]_vars

\* The benchmark of one game for each of the solvers (Set-Based with
\* either guess method).
AgentLiveInit ==
    /\ AgentInit
    /\ argv \in {<<a, 1>> : a \in 1 .. 3} \cup {<<3, 1, 2>>}

\* When MakeMove can be taken: make_move has an outcome.
MakeMoveEnabled ==
    /\ pc = "events"
    /\ ai # "None"
    /\ moves < MaxMoves
    /\ make_move(ai, guess_method, Self) # {}

\* When AgentCheckButton can be taken: a first reveal needs a mine layout.
CheckButtonEnabled ==
    /\ pc = "check_button"
    /\ (move[2] = 1 /\ reveal_allowed(board_list, move[1])) =>
            FirstClickBoards(board_list, first_click, move[1][1], move[1][2]) # {}

\* The benchmark as it runs: with automated = True and display = False no
\* step of the loops waits for an input event, so every step that can be
\* taken is taken. For MakeMove and AgentCheckButton weak fairness is
\* written out, []<>~ENABLED <<A>>_vars \/ []<><<A>>_vars, with the
\* predicates above for ENABLED (both actions change pc, hence vars).
AgentLiveSpec ==
    /\ AgentLiveInit
    /\ [][AgentNext]_vars
    /\ WF_vars(ProcessEntry)
    /\ WF_vars(NextGame)
    /\ WF_vars(run_game)
    /\ WF_vars(AgentEventsReturn)
    /\ WF_vars(TallyAndReset)
    /\ ([]<>(~MakeMoveEnabled) \/ []<><<MakeMove>>_vars)
    /\ ([]<>(~CheckButtonEnabled) \/ []<><<AgentCheckButton>>_vars)

\* ------------------------------------------------------------------------
\* main.py: the menu screens and the game sessions started from them.
\* main_menu, choose_difficulty, choose_solver and choose_guess_method are
\* `while True` loops without a return: a button calls the next screen or
\* starts a session from inside the loop, and Escape in a game calls
\* main_menu() from inside check_quit. No call of them returns, so a
\* run_game loop left by Escape stays suspended below the menu's frames.

\* The most sessions started in one run of the process.
MaxSessions == 2

\* The process was started without arguments; settings.py, line 11, holds
\* the preset of mode 3.
MenuInit ==
    /\ ROWS = difficulty_settings(3).ROWS
    /\ COLS = difficulty_settings(3).COLS
    /\ AMOUNT_MINES = difficulty_settings(3).AMOUNT_MINES
    /\ board_list = NewBoardList
    /\ first_click = FALSE
    /\ dug = {}
    /\ win = "None"
    /\ playing = FALSE
    /\ pc = "main"
    /\ first_cell = <<>>
    /\ knowledge = NewSolver.knowledge
    /\ mines = NewSolver.mines
    /\ safes = NewSolver.safes
    /\ moves_made = NewSolver.moves_made
    /\ next_uncertain_move = NewSolver.next_uncertain_move
    /\ guess = NewSolver.guess
    /\ analysis = NoAnalysis
    /\ ai = "None"
    /\ guess_method = 1
    /\ argv = <<>>
    /\ move = <<>>
    /\ game = 0
    /\ moves = 0
    /\ sessions = <<>>

\* What a screen leaves when it only calls another screen.
menuFrame == <<gameVars, first_cell, solverVars>>

\* main_menu, lines 222-230: PLAY calls choose_difficulty().
main_menu ==
    /\ pc = "main_menu"
    /\ pc' = "choose_difficulty"
    /\ UNCHANGED <<settingsVars, menuFrame>>

\* choose_difficulty, lines 272-286: a difficulty button applies
\* settings.difficulty_settings(mode) and calls choose_solver(); BACK calls
\* main_menu().
choose_difficulty ==
    /\ pc = "choose_difficulty"
    /\ \/ /\ \E mode \in Modes :
                /\ ROWS' = difficulty_settings(mode).ROWS
                /\ COLS' = difficulty_settings(mode).COLS
                /\ AMOUNT_MINES' = difficulty_settings(mode).AMOUNT_MINES
          /\ pc' = "choose_solver"
       \/ /\ pc' = "main_menu"
          /\ UNCHANGED settingsVars
    /\ UNCHANGED menuFrame

\* A session whose solver was constructed for the default board of
\* settings.py instead of the current settings.
StartSession_default_solver(cls, method) ==
    /\ Len(sessions) < MaxSessions
    /\ ai' = cls
    /\ guess_method' = method
    /\ SetSelf(NewSolver)
    /\ sessions' = Append(sessions, difficulty_settings(3))
    /\ board_list' = NewBoardList
    /\ first_click' = FALSE
    /\ dug' = {}
    /\ first_cell' = <<>>
    /\ win' = "None"
    /\ moves' = 0
    /\ move' = <<>>
    /\ analysis' = NoAnalysis
    /\ pc' = "run_game"
    /\ UNCHANGED <<settingsVars, playing, argv, game>>

\* Lines 336-354 and 392-406: a solver button constructs Minesweeper() and
\* the solver from settings.COLS, settings.ROWS and settings.AMOUNT_MINES,
\* and enters the loop of new_game() and run_game(...).
StartSession(cls, method) ==
    /\ Len(sessions) < MaxSessions
    /\ ai' = cls
    /\ guess_method' = method
    /\ SetSelf(NewSolver)
    /\ sessions' = Append(sessions, Configuration)
    /\ board_list' = NewBoardList
    /\ first_click' = FALSE
    /\ dug' = {}
    /\ first_cell' = <<>>
    /\ win' = "None"
    /\ moves' = 0
    /\ move' = <<>>
    /\ analysis' = NoAnalysis
    /\ pc' = "run_game"
    /\ UNCHANGED <<settingsVars, playing, argv, game>>

\* choose_solver, lines 331-360: the buttons None, Generate Configuration
\* Solver and Probability Theory Solver start a session, Set Based Solver
\* calls choose_guess_method(), BACK calls choose_difficulty().
choose_solver ==
    /\ pc = "choose_solver"
    /\ \/ \E cls \in {"None", "GenerateConfigurationSolver", "ProbabilityTheorySolver"} :
            StartSession(cls, 1)
       \/ /\ \E target \in {"choose_guess_method", "choose_difficulty"} : pc' = target
          /\ UNCHANGED <<settingsVars, menuFrame>>

\* choose_guess_method, lines 387-409: either button starts a session of
\* a SetBasedSolver, BACK calls choose_solver().
choose_guess_method ==
    /\ pc = "choose_guess_method"
    /\ \/ \E method \in GuessMethods : StartSession("SetBasedSolver", method)
       \/ /\ pc' = "choose_solver"
          /\ UNCHANGED <<settingsVars, menuFrame>>

\* The events of a session without solver: a click on the board that is
\* no flag action, and the end of an events() call.
HumanEvents ==
    /\ ai = "None"
    /\ \/ MouseButtonDown /\ NumFlagged(board_list') = 0
       \/ EventsReturn

\* run_game(ai, automated = True, end_screen = True) of a menu session
\* ended its loop; end_screen() returns on a click, and the loop of the
\* session calls ai.reset(), new_game() and run_game again.
PlayAgain ==
    /\ pc = "tally"
    /\ SetSelf(reset(Self))
    /\ board_list' = NewBoardList
    /\ first_click' = FALSE
    /\ dug' = {}
    /\ first_cell' = <<>>
    /\ moves' = 0
    /\ pc' = "run_game"
    /\ UNCHANGED <<settingsVars, win, playing, analysis, ai, guess_method, argv, move,
                   game, sessions>>

\* The places of a session where pygame events are polled and handed to
\* check_quit: events() of a game without solver, run_game's loop of an
\* automated game (lines 40-42), and end_screen.
PollingPlaces == {"events", "end_screen", "tally"}

\* check_quit, lines 102-105: Escape calls main_menu().
Escape ==
    /\ pc \in PollingPlaces
    /\ pc' = "main_menu"
    /\ UNCHANGED <<settingsVars, menuFrame>>

\* pygame.QUIT on any screen or in a game: pygame.quit() and quit(0).
Quit ==
    /\ pc \in PollingPlaces \cup {"main_menu", "choose_difficulty", "choose_solver",
                                  "choose_guess_method"}
    /\ pc' = "exit"
    /\ UNCHANGED <<settingsVars, menuFrame>>

MenuNext ==
    \/ ProcessEntry
    \/ main_menu
    \/ choose_difficulty
    \/ choose_solver
    \/ choose_guess_method
    \/ run_game
    \/ HumanEvents
    \/ new_game
    \/ MakeMove
    \/ AgentCheckButton
    \/ AgentEventsReturn
    \/ PlayAgain
    \/ Escape
    \/ Quit

MenuSpec == MenuInit /\ [][MenuNext]_vars

\* ------------------------------------------------------------------------
\* Properties.

Mines(bl) == {c \in Cells : bl[c].type = "X"}
Revealed(bl) == {c \in Cells : bl[c].revealed}
Flagged(bl) == {c \in Cells : bl[c].flagged}

Abs(n) == IF n < 0 THEN -n ELSE n

\* The grid neighbours of a cell: the other cells at most one step away in
\* each direction.
Neighbours(c) ==
    {n \in Cells : n # c /\ Abs(n[1] - c[1]) <= 1 /\ Abs(n[2] - c[2]) <= 1}

\* C1: once the first reveal of a game has happened, exactly AMOUNT_MINES
\* tiles are mines and the first-clicked cell is not one of them.
C1_MinesPlaced ==
    first_click =>
        /\ Cardinality(Mines(board_list)) = AMOUNT_MINES
        /\ first_cell \in Cells
        /\ first_cell \notin Mines(board_list)

\* A game that was played on after the first reveal, up to a loss.
C1_Witness ==
    /\ first_click
    /\ board_list[first_cell].revealed
    /\ Cardinality(Revealed(board_list)) > 1
    /\ \E c \in Cells : board_list[c].image = tile_exploded

\* C2: after placement every non-mine tile stores the number of its
\* neighbours that are mines, and is a clue exactly when that number is
\* positive.
C2_CluesMatchNeighbours ==
    first_click =>
        \A c \in Cells \ Mines(board_list) :
            LET n == Cardinality(Neighbours(c) \cap Mines(board_list)) IN
            /\ board_list[c].nearby_mine = n
            /\ (board_list[c].type = "C") <=> (n > 0)

\* A placed board with both a clue and an empty tile, and a clue that sees
\* every mine.
C2_Witness ==
    /\ first_click
    /\ AMOUNT_MINES > 1
    /\ \E c \in Cells : board_list[c].type = "C" /\ board_list[c].nearby_mine = AMOUNT_MINES
    /\ \E c \in Cells : board_list[c].type = "." /\ board_list[c].nearby_mine = 0

\* The empty tiles connected to the cells of S through empty tiles.
RECURSIVE ZeroRegion(_, _)
ZeroRegion(bl, S) ==
    LET T == S \cup {n \in Cells : /\ bl[n].type # "X" /\ bl[n].nearby_mine = 0
                                   /\ \E z \in S : n \in Neighbours(z)}
    IN  IF T = S THEN S ELSE ZeroRegion(bl, T)

FloodArea(bl, c) ==
    LET region == ZeroRegion(bl, {c})
    IN  region \cup UNION {Neighbours(z) : z \in region}

\* The step is check_button(1, c) digging tile c. The tests before
\* check_button are consequences of it that are cheap to evaluate.
RevealStep(c) ==
    /\ pc = "events"
    /\ ~board_list[c].flagged
    /\ first_click'
    /\ c \in dug'
    /\ check_button(1, c[1], c[2])

\* C3: a reveal that digs an empty tile leaves revealed, beyond what was
\* revealed before, exactly the region of empty tiles around it and the
\* tiles next to that region, and reveals no mine.
C3_FloodFill ==
    [][\A c \in Cells :
        ( /\ board_list'[c].type # "X"
          /\ board_list'[c].nearby_mine = 0
          /\ Flagged(board_list') = Flagged(board_list)
          /\ RevealStep(c) )
        => /\ Revealed(board_list') = Revealed(board_list) \cup FloodArea(board_list', c)
           /\ Mines(board_list') \cap Revealed(board_list') \subseteq Revealed(board_list)
      ]_vars

\* An empty tile was dug, the fill reached a clue two steps away and left
\* a safe tile unrevealed.
C3_Witness ==
    /\ playing
    /\ \E c \in dug :
        /\ board_list[c].type = "." /\ board_list[c].nearby_mine = 0
        /\ \E d \in dug : Abs(d[1] - c[1]) > 1 /\ board_list[d].type = "C"
    /\ \E c \in Cells \ Mines(board_list) : ~board_list[c].revealed

\* The board with exactly the tiles of F flagged.
WithFlags(bl, F) == [c \in Cells |-> [bl[c] EXCEPT !.flagged = (c \in F)]]

C5_MineDugIsLost ==
    (pc = "end_screen" /\ \E c \in Cells : board_list[c].image = tile_exploded)
        => win = "False"

\* C6: a reveal that digs a mine leaves every mine revealed and every
\* wrongly flagged tile unflagged, revealed and showing the wrong-flag face,
\* and no other tile changed in its revealed or flagged state.
C6_LossReveal ==
    [][\A c \in Cells :
        ( /\ board_list[c].type = "X"
          /\ RevealStep(c) )
        => \A t \in Cells :
            IF board_list[t].type = "X"
            THEN board_list'[t].revealed
            ELSE IF board_list[t].flagged
            THEN /\ ~board_list'[t].flagged
                 /\ board_list'[t].revealed
                 /\ board_list'[t].image = tile_not_mine
            ELSE /\ board_list'[t].revealed = board_list[t].revealed
                 /\ board_list'[t].flagged = board_list[t].flagged
      ]_vars

\* A mine was dug while a safe tile was flagged and another safe tile was
\* neither flagged nor revealed.
C6_Witness ==
    /\ \E c \in Cells : board_list[c].image = tile_exploded
    /\ \E c \in Cells : board_list[c].image = tile_not_mine /\ board_list[c].revealed
    /\ \E c \in Cells \ Mines(board_list) : ~board_list[c].revealed

\* The Board a new game starts on.
FreshBoard(bl, fclick, d) ==
    /\ \A c \in Cells : ~bl[c].revealed /\ ~bl[c].flagged /\ bl[c].type # "X"
    /\ ~fclick
    /\ d = {}

\* C7 as claimed: new_game resets the outcome and replaces the Board.
C7_NewGameResetsOutcome ==
    [][new_game => (win' = "None" /\ FreshBoard(board_list', first_click', dug'))]_vars

\* C7: new_game replaces the Board with a fresh one and leaves the outcome
\* as the previous game set it.
C7_NewGameKeepsOutcome ==
    [][new_game => (win' = win /\ FreshBoard(board_list', first_click', dug'))]_vars

\* A new game has started after a game that was lost.
C7_Witness ==
    /\ pc = "run_game"
    /\ win = "False"
    /\ FreshBoard(board_list, first_click, dug)

\* C8: check_button changes nothing for a reveal of a flagged tile, for a
\* flag action on a revealed tile and for any other button; a flag action
\* on an unrevealed tile toggles that tile's flag and nothing else.
C8_CheckButtonFrame ==
    [][\A c \in Cells :
        /\ (pc = "events" /\ board_list[c].flagged /\ check_button(1, c[1], c[2]))
            => UNCHANGED <<gameVars, first_cell>>
        /\ (pc = "events" /\ board_list[c].revealed /\ check_button(3, c[1], c[2]))
            => UNCHANGED <<gameVars, first_cell>>
        /\ (pc = "events" /\ ~board_list[c].revealed /\ check_button(3, c[1], c[2]))
            => /\ board_list'[c] = [board_list[c] EXCEPT !.flagged = ~@]
               /\ \A t \in Cells \ {c} : board_list'[t] = board_list[t]
               /\ UNCHANGED <<first_click, dug, win, playing, first_cell>>
        /\ \A button \in Buttons \ {1, 3} :
            (pc = "events" /\ check_button(button, c[1], c[2]))
                => UNCHANGED <<gameVars, first_cell>>
      ]_vars

\* A round, after the mines are placed, with a flagged unrevealed tile and
\* a revealed tile.
C8_Witness ==
    /\ pc = "events"
    /\ first_click
    /\ \E c \in Cells : board_list[c].flagged /\ ~board_list[c].revealed
    /\ \E c \in Cells : board_list[c].revealed /\ ~board_list[c].flagged

\* C9: known_mines is the whole cell set when the set's size equals the
\* count and empty otherwise; known_safes is the whole cell set when the
\* count is 0 and empty otherwise.
C9_SentenceCertainty ==
    \A i \in DOMAIN knowledge :
        LET s == knowledge[i] IN
        /\ Cardinality(s.cells) = s.count => known_mines(s) = s.cells
        /\ Cardinality(s.cells) # s.count => known_mines(s) = {}
        /\ s.count = 0 => known_safes(s) = s.cells
        /\ s.count # 0 => known_safes(s) = {}

\* The knowledge holds an all-mines sentence and an all-safe sentence, both
\* with cells, after some cells were marked.
C9_Witness ==
    /\ \E i \in DOMAIN knowledge :
        knowledge[i].cells # {} /\ Cardinality(knowledge[i].cells) = knowledge[i].count
    /\ \E i \in DOMAIN knowledge :
        knowledge[i].cells # {} /\ knowledge[i].count = 0
    /\ mines # {}

\* C10: mark_mine(cell) takes the cell out of every sentence holding it and
\* lowers that sentence's count by 1; mark_safe(cell) takes it out and
\* keeps the count; every other sentence stays as it is.
C10_MarkFrame ==
    [][\A cell \in Cells :
        /\ MarkMine(cell) =>
            /\ Len(knowledge') = Len(knowledge)
            /\ \A i \in DOMAIN knowledge :
                IF cell \in knowledge[i].cells
                THEN /\ knowledge'[i].cells = knowledge[i].cells \ {cell}
                     /\ knowledge'[i].count = knowledge[i].count - 1
                ELSE knowledge'[i] = knowledge[i]
        /\ MarkSafe(cell) =>
            /\ Len(knowledge') = Len(knowledge)
            /\ \A i \in DOMAIN knowledge :
                IF cell \in knowledge[i].cells
                THEN /\ knowledge'[i].cells = knowledge[i].cells \ {cell}
                     /\ knowledge'[i].count = knowledge[i].count
                ELSE knowledge'[i] = knowledge[i]
      ]_vars

\* Two sentences that shared a marked mine and a marked safe cell: one went
\* below zero by the mine, the other kept its count without its safe cell.
C10_Witness ==
    /\ mines # {} /\ safes # {}
    /\ \E i \in DOMAIN knowledge : knowledge[i].count < 0
    /\ \E i \in DOMAIN knowledge :
        knowledge[i].count = MaxCount /\ Cardinality(knowledge[i].cells) < MaxCount

\* Sentence s is true of the mine set M.
TrueOf(s, M) == Cardinality(s.cells \cap M) = s.count

\* C11: the configurations that survive the enumeration of
\* GenerateConfigurationSolver.analyze_knowledge are exactly the sets of
\* mentioned cells that give every sentence its count of mines, each
\* listed once.
C11_ConfigurationsExact ==
    (ai = "GenerateConfigurationSolver" /\ analysis.knowledge # <<>>) =>
        LET kn == analysis.knowledge
            configs == analysis.possible_configuration
        IN  /\ Range(configs) =
                    {M \in SUBSET MentionedCells(kn) : \A i \in DOMAIN kn : TrueOf(kn[i], M)}
            /\ \A a, b \in DOMAIN configs : a # b => configs[a] # configs[b]

\* Three sentences were analysed, two of them sharing a cell, with several
\* configurations surviving and a choice of an earlier sentence ruled out
\* by a later one.
C11_Witness ==
    /\ ai = "GenerateConfigurationSolver"
    /\ Len(analysis.knowledge) = 3
    /\ Len(analysis.possible_configuration) >= 2
    /\ \E i, j \in DOMAIN analysis.knowledge :
        i < j /\ analysis.knowledge[i].cells \cap analysis.knowledge[j].cells # {}
    /\ \E M \in SUBSET analysis.knowledge[1].cells :
        /\ TrueOf(analysis.knowledge[1], M)
        /\ \A k \in DOMAIN analysis.possible_configuration :
            analysis.possible_configuration[k] \cap analysis.knowledge[1].cells # M

\* The pair (i, j) of the knowledge satisfies the complement condition with
\* i the larger sentence, and the step rewrote it as the difference.
ComplementCondition(i, j) ==
    /\ knowledge[j].cells \subseteq knowledge[i].cells
    /\ knowledge[i].count >= knowledge[j].count

ComplementRewritten(i, j) ==
    /\ knowledge'[i] = Sentence(knowledge[i].cells \ knowledge[j].cells,
                                knowledge[i].count - knowledge[j].count)
    /\ knowledge'[j] = knowledge[j]

\* The claim about the pairs of the list before the call; two sentences
\* with the same cells and count fit the condition both ways, and either
\* may be the one rewritten.
ComplementClaim ==
    /\ \A i, j \in DOMAIN knowledge :
        (i # j /\ ComplementCondition(i, j)) =>
            \/ ComplementRewritten(i, j)
            \/ ComplementCondition(j, i) /\ ComplementRewritten(j, i)
    /\ \A i \in DOMAIN knowledge :
        (\A j \in DOMAIN knowledge \ {i} :
            /\ ~(knowledge[j].cells \subseteq knowledge[i].cells)
            /\ ~(knowledge[i].cells \subseteq knowledge[j].cells))
        => knowledge'[i] = knowledge[i]

\* C12 as stated: add_complement_sentence rewrites every pair of the
\* knowledge with B.cells a subset of A.cells and A.count >= B.count into
\* (A.cells - B.cells, A.count - B.count) and B, and leaves sentences
\* without a subset relation unchanged.
C12_ComplementEveryPair ==
    [][pc = "add_complement_sentence" => ComplementClaim]_vars

\* C12 amended: the same for a list of two sentences; lists of any length
\* keep their length and every sentence's cells only shrink.
C12_ComplementTwoSentences ==
    [][pc = "add_complement_sentence" =>
        /\ Len(knowledge) = 2 => ComplementClaim
        /\ Len(knowledge') = Len(knowledge)
        /\ \A i \in DOMAIN knowledge : knowledge'[i].cells \subseteq knowledge[i].cells
      ]_vars

\* add_complement_sentence has returned on a list of two sentences, one of
\* which is no longer the neighbourhood of a revealed tile: it was rewritten
\* as its difference with the other.
C12_Witness ==
    /\ pc = "check_sentence"
    /\ Len(knowledge) = 2
    /\ knowledge[1].cells # {} /\ knowledge[2].cells # {}
    /\ knowledge[1].cells \cap knowledge[2].cells = {}
    /\ \E i \in 1 .. 2 : \A cell \in moves_made :
        knowledge[i].cells # Neighbours(cell) \ (safes \cup mines)

\* The pair (i, j) of the knowledge as add_intersection_sentence orients
\* it: s1 has the count that is greater or equal.
IntersectionS1(i, j) ==
    IF knowledge[i].count >= knowledge[j].count THEN knowledge[i] ELSE knowledge[j]

IntersectionS2(i, j) ==
    IF knowledge[i].count >= knowledge[j].count THEN knowledge[j] ELSE knowledge[i]

IntersectionCondition(i, j) ==
    IntersectionS1(i, j).count - IntersectionS2(i, j).count
        = Cardinality(IntersectionS1(i, j).cells \ IntersectionS2(i, j).cells)

IntersectionDerived(i, j) ==
    Sentence(IntersectionS1(i, j).cells \cap IntersectionS2(i, j).cells,
             IntersectionS2(i, j).count)

\* What the claim says of the pair (i, j) of the list before the call.
IntersectionClaim(i, j) ==
    IntersectionCondition(i, j) =>
        /\ IntersectionS1(i, j).cells \ IntersectionS2(i, j).cells \subseteq mines'
        /\ IntersectionS2(i, j).cells \ IntersectionS1(i, j).cells \subseteq safes'
        /\ IntersectionDerived(i, j) \in Range(knowledge')
        /\ \A s \in {knowledge[i], knowledge[j]} :
            s # IntersectionDerived(i, j) => s \notin Range(knowledge')

\* C13 as stated: for every pair of a knowledge list of any length whose
\* counts differ by exactly the number of cells only s1 has,
\* add_intersection_sentence marks those cells as mines and the cells only
\* s2 has as safe, and returns with both sentences gone and a sentence over
\* the shared cells with s2's count present.
C13_IntersectionAnyLength ==
    [][pc = "add_intersection_sentence" =>
        \A i, j \in DOMAIN knowledge : i < j => IntersectionClaim(i, j)]_vars

\* C13 amended: the same for a list of two sentences, which the call
\* replaces by the derived sentence alone; two sentences that do not meet
\* the condition leave the solver unchanged.
C13_IntersectionTwoSentences ==
    [][(pc = "add_intersection_sentence" /\ Len(knowledge) = 2) =>
        /\ IntersectionClaim(1, 2)
        /\ IntersectionCondition(1, 2) => knowledge' = <<IntersectionDerived(1, 2)>>
        /\ ~IntersectionCondition(1, 2) => UNCHANGED <<knowledge, mines, safes>>
      ]_vars

\* add_intersection_sentence has returned with one sentence over the cells
\* two revealed tiles share, a marked mine that only one of them touches and
\* a marked safe cell, not revealed, that only the other touches.
C13_Witness ==
    /\ pc = "add_knowledge"
    /\ Len(knowledge) = 1
    /\ \E c1, c2 \in moves_made :
        /\ knowledge[1].cells = (Neighbours(c1) \cap Neighbours(c2)) \ (safes \cup mines)
        /\ knowledge[1].cells # {}
        /\ (Neighbours(c1) \ Neighbours(c2)) \cap mines # {}
        /\ (Neighbours(c2) \ Neighbours(c1)) \cap (safes \ moves_made) # {}

\* The analysed list is one of sentences with 0 <= count <= |cells|.
FeasibleSentences(kn) ==
    \A i \in DOMAIN kn : 0 <= kn[i].count /\ kn[i].count <= Cardinality(kn[i].cells)

\* An estimation of a ProbabilityTheorySolver on such a list has been made.
Estimated ==
    /\ ai = "ProbabilityTheorySolver"
    /\ analysis.knowledge # <<>>
    /\ FeasibleSentences(analysis.knowledge)

\* C14 as stated: after the estimation every probability lies in [0, 1],
\* every cell of a sentence whose count equals its size has probability 1,
\* and every cell of a sentence with count 0 has probability 0, whatever
\* other sentences the cell belongs to.
C14_EstimateCertain ==
    Estimated =>
        \A c \in DOMAIN analysis.prob_dict :
            LET prob == analysis.prob_dict[c]
                kn == analysis.knowledge
            IN  /\ 0 <= prob[1] /\ prob[1] <= prob[2]
                /\ \A i \in DOMAIN kn : c \in kn[i].cells =>
                    /\ kn[i].count = Cardinality(kn[i].cells) => prob[1] = prob[2]
                    /\ kn[i].count = 0 => prob[1] = 0

\* C15: a make_move call made while some known mine has not been acted on
\* returns that mine, or another such mine, with the flag code 3 and
\* records it in moves_made; a call that returns a reveal (code 1) started
\* with every known mine acted on.
C15_FlagBeforeReveal ==
    [][(pc = "events" /\ pc' # "events" /\ ai # "None") =>
        /\ mines \ moves_made # {} =>
            /\ move' # <<>>
            /\ move'[2] = 3
            /\ move'[1] \in mines \ moves_made
            /\ move'[1] \in moves_made'
        /\ (move' # <<>> /\ move'[2] = 1) => mines \subseteq moves_made]_vars

\* A flag action was returned for a known mine, now recorded as acted on,
\* while a known safe was still waiting to be revealed.
C15_Witness ==
    /\ pc = "check_button"
    /\ move[2] = 3
    /\ move[1] \in mines \cap moves_made
    /\ safes \ moves_made # {}

\* C16: the reset() that ends a game of the benchmark, whatever
\* add_knowledge and make_move calls the game made, leaves the solver as
\* Solver.__init__ builds it: moves_made, mines, safes and knowledge empty,
\* no committed uncertain move, guess counter -1; the board size, mine
\* count, class and guess method stay.
C16_ResetIsFresh ==
    [][(pc = "tally" /\ pc' = "play_multiple_games") =>
        /\ Self' = NewSolver
        /\ UNCHANGED <<settingsVars, ai, guess_method>>]_vars

\* A game in which the solver had gathered sentences, marks, a committed
\* uncertain move and guesses has ended and the solver has been reset.
C16_Witness ==
    /\ pc = "play_multiple_games"
    /\ game >= 1
    /\ win # "None"
    /\ Cardinality(dug) >= 2
    /\ analysis.knowledge # <<>>
    /\ Self = NewSolver

\* C17: the process entry with no argument opens the main menu, with two
\* arguments runs the benchmark with guess method 1, with three runs it
\* with the guess method given third, and with any other number prints the
\* InvalidParameterError line, changes nothing else and does nothing after.
C17_EntryDispatch ==
    [][/\ (pc = "main" /\ pc' # "main") =>
            /\ Len(argv) = 0 => pc' = "main_menu"
            /\ Len(argv) = 2 => pc' = "play_multiple_games" /\ guess_method' = 1
            /\ Len(argv) = 3 => pc' = "play_multiple_games" /\ guess_method' = argv[3]
            /\ Len(argv) \notin {0, 2, 3} =>
                /\ pc' = InvalidParameterError
                /\ UNCHANGED <<settingsVars, gameVars, first_cell, solverVars>>
       /\ pc = InvalidParameterError => UNCHANGED vars]_vars

\* The process was started with one or with four arguments and has printed
\* the line: no solver, no game.
C17_Witness ==
    /\ pc = InvalidParameterError
    /\ Len(argv) \in {1, 4}
    /\ ai = "None"
    /\ game = 0
    /\ ~playing
    /\ ~first_click

\* C19: in every state of an agent-driven game, for each of the three
\* solvers, every cell of the solver's known mines is a Mine tile of the
\* board and no cell of its known safes is; a flag action returned by
\* make_move targets a Mine tile and a reveal of a known safe does not.
C19_MarksSound ==
    /\ mines \subseteq Mines(board_list)
    /\ safes \cap Mines(board_list) = {}
    /\ pc = "check_button" =>
        /\ move[2] = 3 => board_list[move[1]].type = "X"
        /\ (move[2] = 1 /\ move[1] \in safes) => board_list[move[1]].type # "X"

\* A Set-Based solver guessing by probability theory knows a mine and is
\* about to reveal a cell it knows to be safe and has not revealed yet.
C19_Witness ==
    /\ ai = "SetBasedSolver"
    /\ guess_method = 2
    /\ pc = "check_button"
    /\ mines # {}
    /\ move[2] = 1
    /\ move[1] \in safes
    /\ ~board_list[move[1]].revealed

\* C20: in every state of an agent-driven game, which add_knowledge and
\* analyze_knowledge calls have left, every sentence of the knowledge list
\* is true of the board: its count is the number of Mine tiles among its
\* cells, for each of the three solvers.
C20_SentencesTrue ==
    \A i \in DOMAIN knowledge : TrueOf(knowledge[i], Mines(board_list))

\* A Set-Based solver holds, next to another sentence, a sentence with
\* mines left that is no revealed tile's clue over its unknown neighbours:
\* one derived from two others.
C20_Witness ==
    /\ ai = "SetBasedSolver"
    /\ Len(knowledge) >= 2
    /\ \E i \in DOMAIN knowledge :
        /\ knowledge[i].cells # {}
        /\ knowledge[i].count > 0
        /\ \A c \in moves_made :
            knowledge[i].cells # Neighbours(c) \ (safes \cup mines)

\* C21: in an agent-driven game in progress every make_move call returns
\* a cell of the board, never None, that was not in moves_made when the
\* call started; the tile of a reveal action is neither revealed nor
\* flagged, so a committed uncertain move is not returned again once it
\* has been acted on.
C21_MoveIsFresh ==
    [][(pc = "events" /\ pc' # "events" /\ ai # "None") =>
        /\ pc' = "check_button"
        /\ move'[1] \in Cells
        /\ move'[1] \notin moves_made
        /\ move'[2] = 1 =>
            /\ ~board_list[move'[1]].revealed
            /\ ~board_list[move'[1]].flagged]_vars

\* A later guess of a game: the committed uncertain move of an analysis is
\* returned as a reveal of a hidden tile, after earlier guesses have been
\* acted on.
C21_Witness ==
    /\ pc = "check_button"
    /\ move[2] = 1
    /\ guess >= 2
    /\ analysis.knowledge # <<>>
    /\ knowledge # <<>>
    /\ move[1] = next_uncertain_move
    /\ move[1] \notin safes
    /\ ~board_list[move[1]].revealed

\* C22: a game run with automated = True eventually leaves the play loop,
\* playing false and the outcome won or lost, and the agent makes at most
\* COLS x ROWS moves in a game.
C22_AutomatedPlayEnds ==
    /\ (pc = "run_game") ~> (pc = "tally" /\ ~playing /\ win \in {"True", "False"})
    /\ [](moves <= COLS * ROWS)

\* A game has ended won after the agent flagged and revealed its way
\* through several moves.
C22_Witness ==
    /\ pc = "tally"
    /\ ~playing
    /\ win = "True"
    /\ moves >= 4
    /\ \E c \in Cells : board_list[c].flagged /\ c \in mines

\* The kind and the stored adjacent-mine count of every tile.
Kinds(bl) == [c \in Cells |-> <<bl[c].type, bl[c].nearby_mine>>]

\* C23: before the first reveal of an unflagged tile no tile is a mine (or
\* a clue); the step of that reveal places the AMOUNT_MINES mines, away
\* from the clicked tile, which it digs; and from then until new_game no
\* reveal or flag action changes the kind or the adjacent-mine count of
\* any tile.
C23_KindsFixedOnce ==
    [][/\ ~first_click =>
            \A c \in Cells : board_list[c].type = "." /\ board_list[c].nearby_mine = 0
       /\ (~first_click /\ first_click') =>
            /\ Cardinality(Mines(board_list')) = AMOUNT_MINES
            /\ first_cell' \notin Mines(board_list')
            /\ board_list'[first_cell'].revealed
            /\ ~board_list[first_cell'].flagged
       /\ (first_click /\ first_click') => Kinds(board_list') = Kinds(board_list)]_vars

\* A game in progress with the mines placed, a flagged tile and a clue
\* revealed besides the tile of the first reveal.
C23_Witness ==
    /\ first_click
    /\ playing
    /\ Mines(board_list) # {}
    /\ Flagged(board_list) # {}
    /\ Cardinality(Revealed(board_list)) >= 2
    /\ \E c \in Revealed(board_list) : c # first_cell /\ board_list[c].type = "C"

\* In how many of the configurations of the last analysis a cell is a mine.
Appearances(an, c) ==
    Cardinality({k \in DOMAIN an.possible_configuration : c \in an.possible_configuration[k]})

\* The cells the last analysis found in no configuration, and in every one.
CertainSafes(an) == {c \in MentionedCells(an.knowledge) : Appearances(an, c) = 0}
CertainMines(an) ==
    {c \in MentionedCells(an.knowledge) :
        Appearances(an, c) # 0 /\ Appearances(an, c) = Len(an.possible_configuration)}

\* The first analyze_knowledge call of a GenerateConfigurationSolver on a
\* list of sentences.
FirstConfigurationAnalysis ==
    /\ ai = "GenerateConfigurationSolver"
    /\ analysis = NoAnalysis
    /\ analysis' # NoAnalysis

FirstProbabilityAnalysis ==
    /\ ai = "ProbabilityTheorySolver"
    /\ analysis = NoAnalysis
    /\ analysis' # NoAnalysis
    /\ FeasibleSentences(knowledge)

\* The cells whose estimated probability is exactly 0, and exactly 1.
ProbabilityZero(an) == {c \in DOMAIN an.prob_dict : an.prob_dict[c][1] = 0}
ProbabilityOne(an) ==
    {c \in DOMAIN an.prob_dict : an.prob_dict[c][1] = an.prob_dict[c][2]}

\* C25: after the estimation of ProbabilityTheorySolver.analyze_knowledge
\* every cell of probability exactly 0 is marked safe and every cell of
\* probability exactly 1 is marked a mine, and a guess is committed (the
\* refinement and the guess selection run) only when there is no such cell.
C25_CertainProbabilitiesMarked ==
    [][FirstProbabilityAnalysis =>
        /\ ProbabilityZero(analysis') \subseteq safes'
        /\ ProbabilityOne(analysis') \subseteq mines'
        /\ next_uncertain_move' # <<>> =>
            (ProbabilityZero(analysis') = {} /\ ProbabilityOne(analysis') = {})]_vars

\* A make_move call of an agent's game that analysed a list with sentences
\* and fell through to the uncertain move: analyze_knowledge ended in
\* choose_uncertain_move(candidate, risk, considered).
GuessAfterAnalysis ==
    /\ pc = "events"
    /\ pc' = "check_button"
    /\ guess' = guess + 1
    /\ analysis'.knowledge # <<>>

\* The cells neither acted on nor considered, and the first of them in
\* row-major order: no other one is in an earlier row, or in the same row
\* and an earlier column.
Unconsidered(acted, considered) == Cells \ (acted \cup considered)
FirstRowMajor(S) ==
    {c \in S : \A d \in S : c[2] < d[2] \/ (c[2] = d[2] /\ c[1] <= d[1])}

MoveReturned == pc = "events" /\ pc' = "check_button"

\* The move returned is a flag action; the reveal of a known safe; the
\* uncertain move make_move falls through to without a known safe.
FlagAction == move'[2] = 3
SafeMove == move'[2] = 1 /\ move'[1] \in safes'
UncertainMove == move'[2] = 1 /\ move'[1] \notin safes'

\* C27: the guess counter is the number of make_move calls since the last
\* reset or construction that fell through to make_uncertain_move, minus 1:
\* it is -1 when a game starts, every uncertain move adds 1, flag actions
\* and safe moves and every other step but reset leave it alone, and the
\* opening move of every game is an uncertain move that makes it 0.
C27_GuessCounter ==
    /\ [](pc \in {"run_game", "events", "check_button", "check_win", "tally"} =>
            /\ guess >= -1
            /\ guess < moves
            /\ (guess = -1) <=> (moves = 0))
    /\ [][/\ (MoveReturned /\ UncertainMove) => guess' = guess + 1
          /\ (MoveReturned /\ (FlagAction \/ SafeMove)) => guess' = guess
          /\ (MoveReturned /\ moves = 0) => (UncertainMove /\ guess' = 0)
          /\ pc # "events" => (guess' = guess \/ (pc = "tally" /\ guess' = -1))
          /\ pc' = "run_game" => guess' = -1]_vars

\* In the second game of a benchmark the agent has made two uncertain moves
\* and a flag action, and is revealing a known safe.
C27_Witness ==
    /\ game = 2
    /\ pc = "check_button"
    /\ guess = 1
    /\ move[2] = 1
    /\ move[1] \in safes
    /\ moves > 3
    /\ \E c \in Cells : board_list[c].flagged

\* The cells of the sentences of a list that have cells and count 0, and
\* of those whose count is the number of their cells.
CertainSafeCells(kn) ==
    UNION {kn[i].cells : i \in {j \in DOMAIN kn : kn[j].count = 0}}
CertainMineCells(kn) ==
    UNION {kn[i].cells : i \in {j \in DOMAIN kn : kn[j].count = Cardinality(kn[j].cells)}}

\* What check_sentence leaves of a solver `before`: no sentence with cells
\* has count 0 or as many mines as cells, and the cells the sentences made
\* certain are marked and in no sentence.
PropagatedFrom(before, after) ==
    /\ CertainSafeCells(after.knowledge) = {}
    /\ CertainMineCells(after.knowledge) = {}
    /\ CertainSafeCells(before.knowledge) \subseteq after.safes
    /\ CertainMineCells(before.knowledge) \subseteq after.mines
    /\ \A c \in (after.safes \cup after.mines) \ (before.safes \cup before.mines) :
            c \notin MentionedCells(after.knowledge)
    /\ before.safes \subseteq after.safes
    /\ before.mines \subseteq after.mines

\* C28: check_sentence ends on every knowledge list, and when it returns
\* no sentence with cells has count 0 or count equal to the number of its
\* cells: every cell such a sentence made certain is marked safe or mine
\* and is in no sentence. Stated of the call in add_knowledge, and of a
\* call on the list of every state of the derivation.
C28_CheckSentencePropagates ==
    /\ [](PropagatedFrom(Self, check_sentence(Self)))
    /\ [][pc = "check_sentence" => PropagatedFrom(Self, Self')]_vars

\* check_sentence was called in add_knowledge and marked a safe and a mine,
\* and sentences are left.
C28_Witness ==
    /\ pc = "add_intersection_sentence"
    /\ mines # {}
    /\ safes \ moves_made # {}
    /\ knowledge # <<>>

\* A list has no sentence without cells; no two equal sentences.
NoNullSentence(kn) == \A i \in DOMAIN kn : kn[i].cells # {}
NoDuplicatedSentence(kn) == \A i, j \in DOMAIN kn : i # j => kn[i] # kn[j]

\* C29: whenever the solver is asked for a move (at the start of every
\* make_move call), for each of the solvers, the knowledge list has no
\* sentence with an empty cell set and no two equal sentences.
C29_SentenceLifecycle ==
    (pc = "events" /\ ai # "None") =>
        NoNullSentence(knowledge) /\ NoDuplicatedSentence(knowledge)

\* C30: while a game is in progress no tile is both revealed and flagged,
\* whatever reveal and flag actions were made; the flood fill of dig never
\* reveals a flagged tile.
C30_NeverRevealedAndFlagged ==
    playing => \A c \in Cells : ~(board_list[c].revealed /\ board_list[c].flagged)

\* C31: in an agent's game, after every completed move while the game is
\* in progress, moves_made is the set of the tiles revealed or flagged:
\* every revealed tile that is no mine (those of the flood fill included)
\* was reported through add_knowledge, which records it as a move made and
\* a safe, and every flag action of the agent leaves its tile flagged.
C31_BoardSolverAgreement ==
    /\ []((pc \in {"events", "check_win"} /\ playing /\ ai # "None") =>
            /\ moves_made = Revealed(board_list) \cup Flagged(board_list)
            /\ Revealed(board_list) \ Mines(board_list) \subseteq safes
            /\ Flagged(board_list) \subseteq mines)
    /\ [][(pc = "check_button" /\ move[2] = 3) =>
            board_list'[move[1]].flagged]_vars

\* A game in progress in which the agent has flagged a tile and a flood
\* fill has revealed an empty tile and its neighbours.
C31_Witness ==
    /\ pc = "events"
    /\ playing
    /\ ai # "None"
    /\ Flagged(board_list) # {}
    /\ \E c \in Revealed(board_list) :
        /\ board_list[c].type = "."
        /\ Neighbours(c) \subseteq Revealed(board_list)
        /\ Neighbours(c) # {}

\* The exceptions an analyze_knowledge call can end in: min() of an empty
\* dict, and a division by zero.
AnalysisErrors == {"ValueError", "ZeroDivisionError"}

C33_TileDrawn ==
    \A c \in Cells :
        Tile_draw(board_list[c]) =
            IF board_list[c].revealed THEN board_list[c].image
            ELSE IF board_list[c].flagged THEN tile_flag
            ELSE tile_unknown

\* Where the session is while a run_game call of it is executing.
GamePlaces == {"run_game", "events", "check_button", "check_win", "end_screen", "tally"}

\* C34: across menu navigation, game play and Escape, difficulty_settings
\* is applied only on the difficulty screen, where no run_game loop is
\* executing, and the loops left by Escape never execute again: every game
\* entered from a screen belongs to a new session and the earlier sessions
\* stay as they were. Every Board and solver of a session is built from
\* one configuration: while run_game executes, the session's Minesweeper
\* and solver were constructed with the current settings, the board has
\* their COLS x ROWS tiles, and once laid out their AMOUNT_MINES mines.
C34_ConfigurationStable ==
    /\ [](pc \in GamePlaces =>
            /\ sessions # <<>>
            /\ sessions[Len(sessions)] = Configuration
            /\ DOMAIN board_list = Cells
            /\ first_click => Cardinality(Mines(board_list)) = AMOUNT_MINES)
    /\ [][/\ settingsVars' # settingsVars =>
                (pc = "choose_difficulty" /\ pc' = "choose_solver")
          /\ (pc \notin GamePlaces /\ pc' \in GamePlaces) =>
                Len(sessions') = Len(sessions) + 1
          /\ Len(sessions') >= Len(sessions)
          /\ SubSeq(sessions', 1, Len(sessions)) = sessions]_vars

\* A game of a solver is in progress in a second session, started after
\* Escape left the first one and another difficulty was chosen.
C34_Witness ==
    /\ Len(sessions) = 2
    /\ sessions[1] # sessions[2]
    /\ pc = "events"
    /\ playing
    /\ first_click
    /\ ai # "None"

====
